---------------------------- MODULE Spec2Model ----------------------------
(***************************************************************************)
(* A state-machine model of the 2D crowd-simulation renderer               *)
(* (src/index.js, src/math.js, src/unnamed/part_003 = the utility.js that  *)
(* index.js imports).                                                      *)
(*                                                                         *)
(* Number representation.  The program computes in IEEE doubles; the model *)
(* computes in fixed point:                                                *)
(*   - coordinates are integers counting TENTHS of a world unit, so the    *)
(*     arena of index.js, [-100,100], is [-1000,1000];                     *)
(*   - obstacle.scale counts HUNDREDTHS (scale 1 is 100, the key step 0.01 *)
(*     is 1);                                                              *)
(*   - obstacle.rotation is in whole degrees, as in the program (the key   *)
(*     step is 1 degree);                                                  *)
(*   - Math.cos / Math.sin are a table of thousandths, and a product with  *)
(*     them is rounded to the nearest tenth (half away from zero, which is *)
(*     symmetric under negation like the floating-point product).          *)
(* The flat coordinate arrays [x1,y1,x2,y2,...] are sequences of points    *)
(* <<x,y>>: entry i of the model is entries 2i, 2i+1 of the program.  An   *)
(* array slot that holds undefined is the point UndefPt.  Index lists      *)
(* (mesh indices) are flat, as in the program, with 0-based values.        *)
(***************************************************************************)
EXTENDS Integers, Sequences, FiniteSets, TLC

VARIABLES
    keyboardEvents,     \* index.js:11   the set of keys currently held
    obstacle,           \* index.js:145  [x, y, scale, rotation, length, width, p1, p3]
    bounds,             \* index.js:14-17, 68-69  [maxX, minX, maxY, minY]
    people,             \* index.js:160
    dots,               \* index.js:168
    NUMBER_OF_PEOPLE,   \* index.js:21
    NUMBER_OF_DOTS,     \* index.js:22
    DENSITY,            \* index.js:24
    triangle,           \* index.js:187  the mesh [vertices, indices]
    lines,              \* index.js:188  [vertices, indices] of the wireframe
    triangleDensity,    \* index.js:190  [red, orange, blue], each [vertices, indices]
    isDragging,         \* index.js:43
    draggedPointIndex,  \* index.js:44
    editMode,           \* index.js:45
    triangleSelection,  \* index.js:46
    renderAlive,        \* whether render() is still rescheduled (index.js:465)
    used,               \* history: the number of events handled so far
    ev                  \* history: the last handler that touched the points or the mesh

vars == <<keyboardEvents, obstacle, bounds, people, dots, NUMBER_OF_PEOPLE,
          NUMBER_OF_DOTS, DENSITY, triangle, lines, triangleDensity, isDragging,
          draggedPointIndex, editMode, triangleSelection, renderAlive, used, ev>>

-----------------------------------------------------------------------------
(* Program constants (index.js), in the model's units. *)

keyboardSensitivity == 1
steps == 20            \* 2 world units
maxY == 1000           \* 100 world units
minY == -1000
minScale == 10         \* 0.1
maxScale == 150        \* 1.5
ScaleOne == 100        \* obstacle.scale: 1
obstacleLength == 1000 \* obstacle.length: 100
obstacleWidth == 1000  \* obstacle.width: 100
pickRadius == 50       \* 5.0 world units
rotationStep == 1      \* 1 degree per frame
scaleStep == 1         \* 0.01 per frame
attemptCap == 100      \* createNewPosition's safety break

(* Bounds of the model. *)
MaxFrames == 1         \* calculateMovements calls explored from each starting pose
MaxKeys == 2           \* keys held at the same time
MaxPeople == 2         \* largest value of the people slider (and the initial count)
MaxDots == 2           \* largest value of the dots slider (and the initial count)
MaxDensity == 1        \* largest value of the density slider (and the initial one)
MaxEvents == 5         \* events (key, mouse, button, slider, frame) in one run of Spec
InitDots == 1          \* NUMBER_OF_DOTS at the start

-----------------------------------------------------------------------------
(* Arithmetic helpers. *)

Abs(a) == IF a < 0 THEN -a ELSE a

Min2(a, b) == IF a < b THEN a ELSE b

Max2(a, b) == IF a > b THEN a ELSE b

(* a / b rounded to the nearest integer, halves away from zero (b > 0). *)
Rnd(a, b) == IF a >= 0 THEN (2 * a + b) \div (2 * b) ELSE -((2 * (-a) + b) \div (2 * b))

(* cos of 0..90 degrees, in thousandths. *)
CosTab ==
  << 1000, 1000, 999, 999, 998, 996, 995, 993, 990, 988, 985, 982, 978,
     974, 970, 966, 961, 956, 951, 946, 940, 934, 927, 921, 914, 906,
     899, 891, 883, 875, 866, 857, 848, 839, 829, 819, 809, 799, 788,
     777, 766, 755, 743, 731, 719, 707, 695, 682, 669, 656, 643, 629,
     616, 602, 588, 574, 559, 545, 530, 515, 500, 485, 469, 454, 438,
     423, 407, 391, 375, 358, 342, 326, 309, 292, 276, 259, 242, 225,
     208, 191, 174, 156, 139, 122, 105, 87, 70, 52, 35, 17, 0 >>

TrigScale == CosTab[1]

(* Math.cos(deg * Math.PI / 180) and Math.sin(...), for -90 <= deg <= 90. *)
Cos(deg) == CosTab[Abs(deg) + 1]

Sin(deg) == IF deg >= 0 THEN CosTab[90 - deg + 1] ELSE -CosTab[90 + deg + 1]

(* The point p rotated by deg degrees about the origin:                    *)
(*   rotatedX = p.x * cos - p.y * sin;  rotatedY = p.x * sin + p.y * cos   *)
Rotate(p, deg) ==
    << Rnd(p[1] * Cos(deg) - p[2] * Sin(deg), TrigScale),
       Rnd(p[1] * Sin(deg) + p[2] * Cos(deg), TrigScale) >>

(* (object.length * object.scale) / 2 *)
HalfExtent(len, scale) == (len * scale) \div (2 * ScaleOne)

UndefPt == << >>

NullVal == "null"

-----------------------------------------------------------------------------
(* Obstacle transform: part_003 (utility.js) *)

(* The keys each test of lines 9-41 reads: any one of them being held      *)
(* makes the test true.                                                    *)
UpKeys == {"w", "ArrowUp", "W"}

DownKeys == {"s", "ArrowDown", "S"}

LeftKeys == {"a", "ArrowLeft", "A"}

RightKeys == {"d", "ArrowRight", "D"}

RotateLeftKeys == {"q", "Q"}

RotateRightKeys == {"e", "E"}

GrowKeys == {"o", "O"}

ShrinkKeys == {"p", "P"}

Keys ==
    UpKeys \cup DownKeys \cup LeftKeys \cup RightKeys
      \cup RotateLeftKeys \cup RotateRightKeys \cup GrowKeys \cup ShrinkKeys

(* keyboardEvents[a] || keyboardEvents[b] || ... *)
Held(keys, names) == keys \cap names # {}

(* The four local corners, in the order of localCorners. *)
LocalCorners(object) ==
    LET halfLength == HalfExtent(object.length, object.scale)
        halfWidth  == HalfExtent(object.width, object.scale)
    IN << <<-halfLength, -halfWidth>>, <<halfLength, -halfWidth>>,
          <<halfLength, halfWidth>>, <<-halfLength, halfWidth>> >>

(* worldCorners of clamp / obstacleVertices of getObstacleCorners. *)
WorldCorners(object) ==
    [i \in 1..4 |->
        LET r == Rotate(LocalCorners(object)[i], object.rotation)
        IN <<r[1] + object.x, r[2] + object.y>>]

(* The axis-aligned box of the rotated obstacle: rotMinX .. rotMaxY. *)
RotBox(object) ==
    LET w == WorldCorners(object)
    IN [rotMinX |-> Min2(Min2(w[1][1], w[2][1]), Min2(w[3][1], w[4][1])),
        rotMaxX |-> Max2(Max2(w[1][1], w[2][1]), Max2(w[3][1], w[4][1])),
        rotMinY |-> Min2(Min2(w[1][2], w[2][2]), Min2(w[3][2], w[4][2])),
        rotMaxY |-> Max2(Max2(w[1][2], w[2][2]), Max2(w[3][2], w[4][2]))]

(* The scale after lines 81-82. *)
ClampScale(scale, minS, maxS) ==
    LET s1 == IF scale < minS THEN minS ELSE scale
    IN IF s1 > maxS THEN maxS ELSE s1

(* The rotation after lines 83-84. *)
ClampRotationMutWrap(rotation) ==
    IF rotation >= 90 THEN rotation - 180
    ELSE IF rotation < -90 THEN rotation + 180 ELSE rotation

ClampRotation(rotation) ==
    LET r1 == IF rotation >= 90 THEN 0 ELSE rotation
    IN IF r1 < -90 THEN 0 ELSE r1

(* x and y after lines 118-121: every test reads the box computed BEFORE   *)
(* any shift, and the shifts add up.                                       *)
ClampShift(object, box, b) ==
    LET x1 == IF box.rotMaxX > b.maxX THEN object.x - (box.rotMaxX - b.maxX) ELSE object.x
        x2 == IF box.rotMinX < b.minX THEN x1 + (b.minX - box.rotMinX) ELSE x1
        y1 == IF box.rotMaxY > b.maxY THEN object.y - (box.rotMaxY - b.maxY) ELSE object.y
        y2 == IF box.rotMinY < b.minY THEN y1 + (b.minY - box.rotMinY) ELSE y1
    IN [object EXCEPT !.x = x2, !.y = y2]

clamp(object, b, minS, maxS) ==
    LET o1  == [object EXCEPT !.scale = ClampScale(object.scale, minS, maxS),
                              !.rotation = ClampRotation(object.rotation)]
        box == RotBox(o1)
    IN ClampShift(o1, box, b)

(* The additive key deltas of lines 9-41, before clamp. *)
ApplyKeysMutLastWins(keys, object) ==
    LET dy == IF Held(keys, DownKeys) THEN -(steps * keyboardSensitivity)
              ELSE IF Held(keys, UpKeys) THEN steps * keyboardSensitivity ELSE 0
        dx == IF Held(keys, RightKeys) THEN steps * keyboardSensitivity
              ELSE IF Held(keys, LeftKeys) THEN -(steps * keyboardSensitivity) ELSE 0
        dr == IF Held(keys, RotateRightKeys) THEN -(rotationStep * keyboardSensitivity)
              ELSE IF Held(keys, RotateLeftKeys) THEN rotationStep * keyboardSensitivity ELSE 0
        ds == IF Held(keys, ShrinkKeys) THEN -(scaleStep * keyboardSensitivity)
              ELSE IF Held(keys, GrowKeys) THEN scaleStep * keyboardSensitivity ELSE 0
    IN [object EXCEPT !.x = @ + dx, !.y = @ + dy, !.rotation = @ + dr, !.scale = @ + ds]

ApplyKeys(keys, object) ==
    LET dy == (IF Held(keys, UpKeys) THEN steps * keyboardSensitivity ELSE 0)
              - (IF Held(keys, DownKeys) THEN steps * keyboardSensitivity ELSE 0)
        dx == (IF Held(keys, RightKeys) THEN steps * keyboardSensitivity ELSE 0)
              - (IF Held(keys, LeftKeys) THEN steps * keyboardSensitivity ELSE 0)
        dr == (IF Held(keys, RotateLeftKeys) THEN rotationStep * keyboardSensitivity ELSE 0)
              - (IF Held(keys, RotateRightKeys) THEN rotationStep * keyboardSensitivity ELSE 0)
        ds == (IF Held(keys, GrowKeys) THEN scaleStep * keyboardSensitivity ELSE 0)
              - (IF Held(keys, ShrinkKeys) THEN scaleStep * keyboardSensitivity ELSE 0)
    IN [object EXCEPT !.x = @ + dx, !.y = @ + dy, !.rotation = @ + dr, !.scale = @ + ds]

(* object.p1 / object.p3 of lines 45-46. *)
SetP1P3(object) ==
    LET hl == HalfExtent(object.length, object.scale)
        hw == HalfExtent(object.width, object.scale)
    IN [object EXCEPT !.p1 = <<object.x - hl, object.y - hw>>,
                      !.p3 = <<object.x + hl, object.y + hw>>]

(* calculateMovements: the new object and the returned flag. *)
calculateMovements(keys, object, b, minS, maxS) ==
    [object   |-> SetP1P3(clamp(ApplyKeys(keys, object), b, minS, maxS)),
     movement |-> (keys \cap Keys) # {}]

(* The obstacle of index.js:145-158, at a given pose. *)
MakeObstacle(x, y, scale, rotation) ==
    SetP1P3([x |-> x, y |-> y, scale |-> scale, rotation |-> rotation,
             length |-> obstacleLength, width |-> obstacleWidth,
             p1 |-> <<0, 0>>, p3 |-> <<0, 0>>])

(* bounds for a canvas whose width is aspect times its height. *)
MakeBounds(aspect) ==
    [maxX |-> maxY * aspect, minX |-> minY * aspect, maxY |-> maxY, minY |-> minY]

-----------------------------------------------------------------------------
(* Geometry and simulation: math.js *)

(* One corner of getObstacleCorners: rotated, then translated. *)
Translate(r, ob) == <<r[1] + ob.x, r[2] + ob.y>>

(* getObstacleCorners (math.js:10-32): the rotated, translated corners. *)
getObstacleCorners(ob) ==
    [i \in 1..4 |-> Translate(Rotate(LocalCorners(ob)[i], ob.rotation), ob)]

(* isColliding of updateCollisions (math.js:45-63).  A comparison with an  *)
(* undefined coordinate (NaN) is false.                                    *)
isCollidingMutOpen(ob, p) ==
    IF p = UndefPt THEN FALSE
    ELSE
      LET rotated == Rotate(<<p[1] - ob.x, p[2] - ob.y>>, -ob.rotation)
          halfLength == HalfExtent(ob.length, ob.scale)
          halfWidth  == HalfExtent(ob.width, ob.scale)
      IN /\ rotated[1] > -halfLength /\ rotated[1] < halfLength
         /\ rotated[2] > -halfWidth  /\ rotated[2] < halfWidth

(* The comparison of math.js:58-62 and 126-130 on the point in the         *)
(* obstacle's frame.                                                       *)
InBox(rotated, halfLength, halfWidth) ==
    /\ rotated[1] >= -halfLength /\ rotated[1] <= halfLength
    /\ rotated[2] >= -halfWidth  /\ rotated[2] <= halfWidth

isColliding(ob, p) ==
    IF p = UndefPt THEN FALSE
    ELSE InBox(Rotate(<<p[1] - ob.x, p[2] - ob.y>>, -ob.rotation),
               HalfExtent(ob.length, ob.scale), HalfExtent(ob.width, ob.scale))

(* isPointColliding of createNewPosition (math.js:119-131): the copy. *)
isPointColliding(ob, p) ==
    IF p = UndefPt THEN FALSE
    ELSE InBox(Rotate(<<p[1] - ob.x, p[2] - ob.y>>, -ob.rotation),
               HalfExtent(ob.length, ob.scale), HalfExtent(ob.width, ob.scale))

(* The random source of one createNewPosition call, run-length coded: the  *)
(* first draw.n draws of Math.random() land on the obstacle's centre, and  *)
(* every later draw is the point draw.p.                                   *)
DrawAt(ob, draw, k) == IF k <= draw.n THEN <<ob.x, ob.y>> ELSE draw.p

(* The draws 1..attemptCap of one createNewPosition call that do not       *)
(* collide.                                                                *)
FreeDraws(draw, centreCollides, pointCollides) ==
    {k \in 1..attemptCap : ~(IF k <= draw.n THEN centreCollides ELSE pointCollides)}

(* The while loop (math.js:133-145) returns the first of its draws         *)
(* 1..attemptCap that does not collide; the draw after those is made and   *)
(* dropped, for attempts > attemptCap then returns null.                   *)
FirstFree(ob, draw, free) ==
    IF free = {} THEN NullVal
    ELSE DrawAt(ob, draw, CHOOSE k \in free : \A j \in free : k <= j)

(* attempts when the loop is left (math.js:140-144): the number of         *)
(* positions drawn.                                                        *)
DrawsMade(free) ==
    IF free = {} THEN attemptCap + 1 ELSE CHOOSE k \in free : \A j \in free : k <= j

(* createNewPosition (math.js:113-147): a point, or null. *)
createNewPosition(ob, draw) ==
    FirstFree(ob, draw, FreeDraws(draw, isPointColliding(ob, DrawAt(ob, draw, 0)),
                                  isPointColliding(ob, DrawAt(ob, draw, draw.n + 1))))

(* The loops of math.js:90-99: push `count` new positions; newPos.x of a   *)
(* null newPos throws (TypeError), which ends updateCollisions.            *)
(* One pass of a loop of math.js:90-99 with the position it drew. *)
SpawnNextMutPrepend(ob, acc, count, rnd, newPos) ==
    IF newPos = NullVal
    THEN [threw |-> TRUE, pts |-> acc, rnd |-> Tail(rnd)]
    ELSE [threw |-> FALSE, pts |-> <<newPos>> \o acc, rnd |-> Tail(rnd)]

SpawnNext(ob, acc, count, rnd, newPos) ==
    IF newPos = NullVal
    THEN [threw |-> TRUE, pts |-> acc, rnd |-> Tail(rnd)]
    ELSE [threw |-> FALSE, pts |-> Append(acc, newPos), rnd |-> Tail(rnd)]

RECURSIVE SpawnInto(_, _, _, _)
SpawnMore(ob, count, one) ==
    IF one.threw THEN one ELSE SpawnInto(ob, one.pts, count - 1, one.rnd)

SpawnInto(ob, acc, count, rnd) ==
    IF count <= 0 THEN [threw |-> FALSE, pts |-> acc, rnd |-> rnd]
    ELSE SpawnMore(ob, count, SpawnNext(ob, acc, count, rnd, createNewPosition(ob, Head(rnd))))

(* Pass 1 of updateCollisions (math.js:65-83): the points that do not collide. *)
RemoveColliding(ob, pts) ==
    LET Keep(p) == ~isColliding(ob, p)
    IN SelectSeq(pts, Keep)

(* Pass 2 for one point set (math.js:85-99): the survivors, then           *)
(* target - survivors new positions.                                       *)
SpawnUpTo(ob, kept, target, rnd) == SpawnInto(ob, kept, target - Len(kept), rnd)

(* How many createNewPosition calls updateCollisions makes when none fails. *)
SpawnCount(ob, pts, target) == Max2(0, target - Len(RemoveColliding(ob, pts)))

(* The return of updateCollisions (math.js:101), or the TypeError. *)
UcReturn(ppl, dts, sp, sd) ==
    IF sp.threw \/ sd.threw
    THEN [threw |-> TRUE, people |-> ppl, dots |-> dts]
    ELSE [threw |-> FALSE, people |-> sp.pts, dots |-> sd.pts]

UcDots(ob, ppl, dts, nDots, sp) ==
    UcReturn(ppl, dts, sp,
             IF sp.threw THEN sp ELSE SpawnUpTo(ob, RemoveColliding(ob, dts), nDots, sp.rnd))

(* updateCollisions (math.js:42-102).  rnd holds one draw per call of      *)
(* createNewPosition, people first.  threw = the call ended in a TypeError *)
(* and returned nothing.                                                   *)
updateCollisions(ob, ppl, dts, nDots, nPeople, rnd) ==
    UcDots(ob, ppl, dts, nDots, SpawnUpTo(ob, RemoveColliding(ob, ppl), nPeople, rnd))

(* One point set of resetAndRegeneratePoints (math.js:332-358): truncate,  *)
(* copy, or append target - count uniformly drawn points (fresh).          *)
ResizePointsMutDropFront(pts, target, fresh) ==
    IF target < Len(pts) THEN SubSeq(pts, Len(pts) - target + 1, Len(pts))
    ELSE IF target = Len(pts) THEN pts
    ELSE pts \o SubSeq(fresh, 1, target - Len(pts))

ResizePoints(pts, target, fresh) ==
    IF target < Len(pts) THEN SubSeq(pts, 1, target)
    ELSE IF target = Len(pts) THEN pts
    ELSE pts \o SubSeq(fresh, 1, target - Len(pts))

(* resetAndRegeneratePoints (math.js:331-367). *)
resetAndRegeneratePoints(nDots, nPeople, dts, ppl, freshPeople, freshDots) ==
    [people |-> ResizePoints(ppl, nPeople, freshPeople),
     dots   |-> ResizePoints(dts, nDots, freshDots)]

(* The external constrained-Delaunay primitive cdt2d(points, edges,        *)
(* {interior: false}): a list of index triples into `points`.  The model   *)
(* fixes one result per input size: two triangles that share the edge      *)
(* (top-right arena corner, last obstacle corner) and one more triangle on *)
(* the first point.                                                        *)
cdt2d(allPoints, constraints) ==
    LET n  == constraints[1][1]
        c0 == n - 4
        c1 == n - 3
        c2 == n - 2
        o0 == constraints[1][1]
        o3 == constraints[4][1]
        first == IF n > 4 THEN 0 ELSE c2
    IN << <<c1, o3, o0>>, <<o3, c1, c0>>, <<first, o0, c0>> >>

RECURSIVE Flat(_)
Flat(tris) == IF tris = << >> THEN << >> ELSE Head(tris) \o Flat(Tail(tris))

(* constraints of math.js:176-182: the obstacle's outline. *)
ObstacleConstraints(userPointsCount) ==
    << <<userPointsCount, userPointsCount + 1>>,
       <<userPointsCount + 1, userPointsCount + 2>>,
       <<userPointsCount + 2, userPointsCount + 3>>,
       <<userPointsCount + 3, userPointsCount>> >>

MeshOf(allPoints, constraints) ==
    [vertices |-> allPoints, indices |-> Flat(cdt2d(allPoints, constraints))]

(* triangulateWithObstacle (math.js:166-195). *)
triangulateWithObstacleMutCornersFirst(ob, flatPoints) ==
    MeshOf(getObstacleCorners(ob) \o flatPoints, ObstacleConstraints(Len(flatPoints)))

triangulateWithObstacle(ob, flatPoints) ==
    MeshOf(flatPoints \o getObstacleCorners(ob), ObstacleConstraints(Len(flatPoints)))

(* vertices[i * 2], vertices[i * 2 + 1]: undefined beyond the array. *)
Vtx(vertices, i) == IF i >= 0 /\ i < Len(vertices) THEN vertices[i + 1] ELSE UndefPt

(* indices[j] for the 0-based position j; -1 stands for undefined. *)
Idx(indices, j) == IF j < Len(indices) THEN indices[j + 1] ELSE -1

(* One edge function of isPointInTriangle,                                 *)
(*   (px - bx) * (ay - by) - (ax - bx) * (py - by),                        *)
(* as <<value>>, or << >> when an operand is undefined (NaN).              *)
EdgeFn(p, a, b) ==
    IF p = UndefPt \/ a = UndefPt \/ b = UndefPt THEN << >>
    ELSE << (p[1] - b[1]) * (a[2] - b[2]) - (a[1] - b[1]) * (p[2] - b[2]) >>

IsNeg(d) == d # << >> /\ d[1] < 0

IsPos(d) == d # << >> /\ d[1] > 0

(* isPointInTriangle (math.js:214-221). *)
isPointInTriangleMutStrict(p, v1, v2, v3) ==
    LET d1 == EdgeFn(p, v1, v2)
        d2 == EdgeFn(p, v2, v3)
        d3 == EdgeFn(p, v3, v1)
    IN \/ (IsNeg(d1) /\ IsNeg(d2) /\ IsNeg(d3))
       \/ (IsPos(d1) /\ IsPos(d2) /\ IsPos(d3))

isPointInTriangleMutZeroNeg(p, v1, v2, v3) ==
    LET d1 == EdgeFn(p, v1, v2)
        d2 == EdgeFn(p, v2, v3)
        d3 == EdgeFn(p, v3, v1)
        has_neg == ~IsPos(d1) \/ ~IsPos(d2) \/ ~IsPos(d3)
        has_pos == IsPos(d1) \/ IsPos(d2) \/ IsPos(d3)
    IN ~(has_neg /\ has_pos)

isPointInTriangle(p, v1, v2, v3) ==
    LET d1 == EdgeFn(p, v1, v2)
        d2 == EdgeFn(p, v2, v3)
        d3 == EdgeFn(p, v3, v1)
        has_neg == IsNeg(d1) \/ IsNeg(d2) \/ IsNeg(d3)
        has_pos == IsPos(d1) \/ IsPos(d2) \/ IsPos(d3)
    IN ~(has_neg /\ has_pos)

(* peopleCount of math.js:252-259 for the triangle (i1, i2, i3). *)
PeopleCount(triangleData, ppl, i1, i2, i3) ==
    LET v1 == Vtx(triangleData.vertices, i1)
        v2 == Vtx(triangleData.vertices, i2)
        v3 == Vtx(triangleData.vertices, i3)
    IN Cardinality({j \in 1..Len(ppl) : isPointInTriangle(ppl[j], v1, v2, v3)})

(* category of math.js:262-269. *)
CategoryMutFlip(peopleCount, densityThreshold) ==
    IF peopleCount > densityThreshold THEN "blue"
    ELSE IF peopleCount = densityThreshold THEN "red"
    ELSE "orange"

CategoryMutGeq(peopleCount, densityThreshold) ==
    IF peopleCount >= densityThreshold THEN "red"
    ELSE IF peopleCount = densityThreshold THEN "orange"
    ELSE "blue"

Category(peopleCount, densityThreshold) ==
    IF peopleCount > densityThreshold THEN "red"
    ELSE IF peopleCount = densityThreshold THEN "orange"
    ELSE "blue"

(* The position (0-based) of originalIndex among the keys of a vertexMap,  *)
(* kept in insertion order; -1 when the map has no such key.               *)
MapGetMutFirst(keys, originalIndex) ==
    IF \E k \in 1..Len(keys) : keys[k] = originalIndex THEN 0 ELSE -1

MapGet(keys, originalIndex) ==
    IF \E k \in 1..Len(keys) : keys[k] = originalIndex
    THEN (CHOOSE k \in 1..Len(keys) : keys[k] = originalIndex) - 1
    ELSE -1

(* One pass of the forEach of math.js:276-290 for one original index.  A   *)
(* bucket is [vertices, indices, keys]: keys[k] is the original index whose *)
(* mapped index is k - 1, which is where its vertex was pushed.            *)
AddVertexMutNoDedup(triangleData, target, originalIndex) ==
    LET t1 == [target EXCEPT
                 !.vertices = Append(@, Vtx(triangleData.vertices, originalIndex)),
                 !.keys = Append(@, originalIndex)]
    IN [t1 EXCEPT !.indices = Append(@, MapGet(t1.keys, originalIndex))]

AddVertex(triangleData, target, originalIndex) ==
    LET t1 == IF MapGet(target.keys, originalIndex) = -1
              THEN [target EXCEPT
                      !.vertices = Append(@, Vtx(triangleData.vertices, originalIndex)),
                      !.keys = Append(@, originalIndex)]
              ELSE target
    IN [t1 EXCEPT !.indices = Append(@, MapGet(t1.keys, originalIndex))]

AddTriangle(triangleData, target, i1, i2, i3) ==
    AddVertex(triangleData, AddVertex(triangleData, AddVertex(triangleData, target, i1), i2), i3)

EmptyBucket == [vertices |-> << >>, indices |-> << >>, keys |-> << >>]

(* The loop of math.js:239-291 from flat position i on. *)
RECURSIVE DensityLoop(_, _, _, _, _)
DensityLoop(triangleData, ppl, densityThreshold, i, result) ==
    IF i >= Len(triangleData.indices) THEN result
    ELSE
      LET i1 == Idx(triangleData.indices, i)
          i2 == Idx(triangleData.indices, i + 1)
          i3 == Idx(triangleData.indices, i + 2)
          category == Category(PeopleCount(triangleData, ppl, i1, i2, i3), densityThreshold)
          next == [result EXCEPT ![category] = AddTriangle(triangleData, @, i1, i2, i3)]
      IN DensityLoop(triangleData, ppl, densityThreshold, i + 3, next)

(* The returned object (math.js:293): the buckets without their maps. *)
Strip(b) == [vertices |-> b.vertices, indices |-> b.indices]

StripAll(r) == [red |-> Strip(r.red), orange |-> Strip(r.orange), blue |-> Strip(r.blue)]

(* getTriangleDensity (math.js:212-294). *)
getTriangleDensity(triangleData, ppl, densityThreshold) ==
    StripAll(DensityLoop(triangleData, ppl, densityThreshold, 0,
                         [red |-> EmptyBucket, orange |-> EmptyBucket, blue |-> EmptyBucket]))

(* convertTriangleIndicesToLineIndices (math.js:301-315). *)
RECURSIVE convertTriangleIndicesToLineIndices(_)
convertTriangleIndicesToLineIndices(triangleIndices) ==
    IF triangleIndices = << >> THEN << >>
    ELSE LET v1 == Idx(triangleIndices, 0)
             v2 == Idx(triangleIndices, 1)
             v3 == Idx(triangleIndices, 2)
         IN <<v1, v2, v2, v3, v3, v1>>
            \o convertTriangleIndicesToLineIndices(
                 SubSeq(triangleIndices, 4, Len(triangleIndices)))

(* t of math.js:393-394 in hundredths: the projection parameter clamped to *)
(* [0,1].                                                                  *)
TFrac == CosTab[1] \div 10

ClampedTMutNoClamp(num, l2) == Rnd(num * TFrac, l2)

ClampedT(num, l2) ==
    IF num <= 0 THEN 0 ELSE IF num >= l2 THEN TFrac ELSE Rnd(num * TFrac, l2)

(* distSq of math.js:385-398 for one edge: <<value>>, or << >> for NaN, or *)
(* <<-1>> for the `continue` of a zero-length edge.                        *)
EdgeDistSq(point, v1, v2) ==
    IF point = UndefPt \/ v1 = UndefPt \/ v2 = UndefPt THEN << >>
    ELSE
      LET l2 == (v1[1] - v2[1]) * (v1[1] - v2[1]) + (v1[2] - v2[2]) * (v1[2] - v2[2])
      IN IF l2 = 0 THEN <<-1>>
         ELSE
           LET t == ClampedT((point[1] - v1[1]) * (v2[1] - v1[1])
                              + (point[2] - v1[2]) * (v2[2] - v1[2]), l2)
               closestPointX == v1[1] + Rnd(t * (v2[1] - v1[1]), TFrac)
               closestPointY == v1[2] + Rnd(t * (v2[2] - v1[2]), TFrac)
           IN << (point[1] - closestPointX) * (point[1] - closestPointX)
                 + (point[2] - closestPointY) * (point[2] - closestPointY) >>

(* The edges of all triangles in the order findClosestEdge visits them. *)
RECURSIVE EdgeList(_)
EdgeList(indices) ==
    IF indices = << >> THEN << >>
    ELSE LET a == Idx(indices, 0)
             b == Idx(indices, 1)
             c == Idx(indices, 2)
         IN << <<a, b>>, <<b, c>>, <<c, a>> >> \o EdgeList(SubSeq(indices, 4, Len(indices)))

(* The scan of math.js:380-405 over the edges from position k on; best is  *)
(* [edge, distanceSq], with distanceSq = << >> for Infinity.               *)
RECURSIVE ClosestScan(_, _, _, _, _)
ClosestScan(point, vertices, edges, k, best) ==
    IF k > Len(edges) THEN best
    ELSE
      LET edge == edges[k]
          distSq == EdgeDistSq(point, Vtx(vertices, edge[1]), Vtx(vertices, edge[2]))
          better == /\ distSq # << >>
                    /\ distSq[1] >= 0
                    /\ (best.distanceSq = << >> \/ distSq[1] < best.distanceSq[1])
      IN ClosestScan(point, vertices, edges, k + 1,
                     IF better THEN [edge |-> edge, distanceSq |-> distSq] ELSE best)

(* findClosestEdge (math.js:376-407): the edge (or null) and the squared   *)
(* distance (or << >> for Infinity).                                       *)
findClosestEdge(point, vertices, indices) ==
    ClosestScan(point, vertices, EdgeList(indices), 1,
                [edge |-> NullVal, distanceSq |-> << >>])

-----------------------------------------------------------------------------
(* Keyboard handlers (index.js:257-262), shared by all specifications. *)

KeyDown(k) ==
    /\ k \notin keyboardEvents
    /\ Cardinality(keyboardEvents) < MaxKeys
    /\ keyboardEvents' = keyboardEvents \cup {k}
    /\ UNCHANGED <<obstacle, bounds, people, dots, NUMBER_OF_PEOPLE, NUMBER_OF_DOTS,
                   DENSITY, triangle, lines, triangleDensity, isDragging,
                   draggedPointIndex, editMode, triangleSelection, renderAlive, ev>>

KeyUp(k) ==
    /\ k \in keyboardEvents
    /\ keyboardEvents' = keyboardEvents \ {k}
    /\ UNCHANGED <<obstacle, bounds, people, dots, NUMBER_OF_PEOPLE, NUMBER_OF_DOTS,
                   DENSITY, triangle, lines, triangleDensity, isDragging,
                   draggedPointIndex, editMode, triangleSelection, renderAlive, ev>>

EmptyMesh == [vertices |-> << >>, indices |-> << >>]

EmptyDensity == [red |-> EmptyMesh, orange |-> EmptyMesh, blue |-> EmptyMesh]

-----------------------------------------------------------------------------
(* SpecMove: the obstacle under calculateMovements alone.                  *)
(*                                                                         *)
(* The obstacle starts in one of a few poses that the program reaches from *)
(* its constructed pose (0, 0, scale 1, rotation 0) by holding keys:       *)
(* q or e for the rotations, o or p for the scales (the box stays centred, *)
(* so clamp's two shifts cancel), w for 24 frames for y = 48, and one     *)
(* frame of w at scale 1.5, rotation 45 for y = -2.                        *)

KeyframePoses ==
    { <<0, 0, 100, 0>>, <<0, 0, 150, 45>>, <<0, 0, 100, 89>>, <<0, 0, 100, -90>>,
      <<0, 480, 100, 0>>, <<0, 0, 150, 0>>, <<0, 0, 10, 0>>, <<0, -20, 150, 45>> }

Aspects == {1, 2}

InitMove ==
    /\ \E k \in KeyframePoses : obstacle = MakeObstacle(k[1], k[2], k[3], k[4])
    /\ \E a \in Aspects : bounds = MakeBounds(a)
    /\ keyboardEvents = {}
    /\ people = << >> /\ dots = << >>
    /\ NUMBER_OF_PEOPLE = 0 /\ NUMBER_OF_DOTS = 0 /\ DENSITY = 0
    /\ triangle = EmptyMesh /\ lines = EmptyMesh /\ triangleDensity = EmptyDensity
    /\ isDragging = FALSE /\ draggedPointIndex = -1
    /\ editMode = "none" /\ triangleSelection = << >>
    /\ renderAlive = TRUE
    /\ used = 0
    /\ ev = [op |-> "init", n |-> 0]

(* One call of calculateMovements(keyboardEvents, obstacle, ...). *)
CalcStep ==
    /\ ev.n < MaxFrames
    /\ LET r == calculateMovements(keyboardEvents, obstacle, bounds, minScale, maxScale)
       IN /\ obstacle' = r.object
          /\ ev' = [op |-> "calculateMovements", n |-> ev.n + 1, movement |-> r.movement,
                    rawRotation |-> ApplyKeys(keyboardEvents, obstacle).rotation,
                    raw |-> <<ApplyKeys(keyboardEvents, obstacle).x,
                              ApplyKeys(keyboardEvents, obstacle).y,
                              ApplyKeys(keyboardEvents, obstacle).scale,
                              ApplyKeys(keyboardEvents, obstacle).rotation>>]
    /\ UNCHANGED <<keyboardEvents, bounds, people, dots, NUMBER_OF_PEOPLE, NUMBER_OF_DOTS,
                   DENSITY, triangle, lines, triangleDensity, isDragging,
                   draggedPointIndex, editMode, triangleSelection, renderAlive, used>>

(* The keys pressed in SpecMove: one key of every test, a second key of    *)
(* the first test, and a key that no test reads.                           *)
MoveKeys == {"w", "s", "a", "d", "q", "e", "o", "p", "ArrowUp", "x"}

MoveKeyDown == \E k \in MoveKeys : KeyDown(k) /\ UNCHANGED used

MoveKeyUp == \E k \in MoveKeys : KeyUp(k) /\ UNCHANGED used

NextMove == MoveKeyDown \/ MoveKeyUp \/ CalcStep

SpecMove == InitMove /\ [][NextMove]_vars

Pose(o) == <<o.x, o.y, o.scale, o.rotation>>

AfterCalc == ev.op = "calculateMovements"

(* C3 (clamp idempotence): the obstacle that calculateMovements leaves is  *)
(* clamp's result; clamping it once more must leave x, y, scale and        *)
(* rotation as they are.                                                   *)
C3_ClampIdempotent ==
    AfterCalc => Pose(clamp(obstacle, bounds, minScale, maxScale)) = Pose(obstacle)

BoxInside(o, b) ==
    LET box == RotBox(o)
    IN /\ b.minX <= box.rotMinX /\ box.rotMaxX <= b.maxX
       /\ b.minY <= box.rotMinY /\ box.rotMaxY <= b.maxY

(* C4 (obstacle stays in the arena): after every calculateMovements call   *)
(* the box of the rotated, scaled obstacle lies inside the arena.          *)
C4_BoxInsideArena == AfterCalc => BoxInside(obstacle, bounds)

(* C5 (scale and rotation ranges): after every calculateMovements call the *)
(* scale is in [minScale, maxScale] and the rotation in [-90, 90); a       *)
(* rotation that the keys took to 90 or more, or below -90, is now 0, and  *)
(* any other rotation, -90 included, is kept as the keys left it.          *)
C5_ScaleRotationRange ==
    AfterCalc =>
      LET raw == ev.rawRotation
      IN /\ minScale <= obstacle.scale /\ obstacle.scale <= maxScale
         /\ -90 <= obstacle.rotation /\ obstacle.rotation < 90
         /\ (raw >= 90 \/ raw < -90) => obstacle.rotation = 0
         /\ (-90 <= raw /\ raw < 90) => obstacle.rotation = raw

C5_Witness ==
    /\ AfterCalc
    /\ ev.rawRotation = 90
    /\ obstacle.rotation = 0

-----------------------------------------------------------------------------
(* Spec: the application of index.js, event by event.                      *)

(* The sample of the plane that Math.random() and the mouse draw from.     *)
G1 == <<-800, -800>>

G2 == <<510, 0>>

RandPts == {G1, G2}

FreshPts == RandPts \cup {<<0, 0>>}

(* The mouse also reaches a point 3 units from G1 and a point at the pick  *)
(* radius, 5 units, from G1.                                               *)
MousePts == {G1, <<1000, 1000>>, <<-500, 500>>, <<-800, -770>>, <<-800, -750>>}

(* The random sources of one createNewPosition call: an immediate hit on a *)
(* sample point, or attemptCap draws inside the obstacle first.            *)
AppDraws == {[n |-> 0, p |-> g] : g \in RandPts} \cup {[n |-> attemptCap, p |-> G1]}

AppKeys == {"d"}

(* corners of index.js:176-181. *)
corners(b) ==
    << <<b.minX, b.maxY>>, <<b.maxX, b.maxY>>, <<b.maxX, b.minY>>, <<b.minX, b.minY>> >>

(* The nearest-point loops of index.js:277-286 and 323-331 from position i *)
(* (0-based) on: the picked index, -1 for none.  closestDistSq is << >>    *)
(* for Infinity.                                                           *)
RECURSIVE PickLoopMutLastOnTies(_, _, _, _, _)
PickLoopMutLastOnTies(points, mouseWorld, i, closestDistSq, picked) ==
    IF i >= Len(points) THEN picked
    ELSE
      LET pt == points[i + 1]
          distSq == IF pt = UndefPt THEN << >>
                    ELSE << (mouseWorld[1] - pt[1]) * (mouseWorld[1] - pt[1])
                            + (mouseWorld[2] - pt[2]) * (mouseWorld[2] - pt[2]) >>
          hit == /\ distSq # << >>
                 /\ distSq[1] < pickRadius * pickRadius
                 /\ (closestDistSq = << >> \/ distSq[1] <= closestDistSq[1])
      IN IF hit THEN PickLoopMutLastOnTies(points, mouseWorld, i + 1, distSq, i)
         ELSE PickLoopMutLastOnTies(points, mouseWorld, i + 1, closestDistSq, picked)

RECURSIVE PickLoop(_, _, _, _, _)
PickLoop(points, mouseWorld, i, closestDistSq, picked) ==
    IF i >= Len(points) THEN picked
    ELSE
      LET pt == points[i + 1]
          distSq == IF pt = UndefPt THEN << >>
                    ELSE << (mouseWorld[1] - pt[1]) * (mouseWorld[1] - pt[1])
                            + (mouseWorld[2] - pt[2]) * (mouseWorld[2] - pt[2]) >>
          hit == /\ distSq # << >>
                 /\ distSq[1] < pickRadius * pickRadius
                 /\ (closestDistSq = << >> \/ distSq[1] < closestDistSq[1])
      IN IF hit THEN PickLoop(points, mouseWorld, i + 1, distSq, i)
         ELSE PickLoop(points, mouseWorld, i + 1, closestDistSq, picked)

PickNearest(points, mouseWorld) == PickLoop(points, mouseWorld, 0, << >>, -1)

(* tri.includes(v) for the triangle at flat position i. *)
TriIncludes(indices, i, v) ==
    Idx(indices, i) = v \/ Idx(indices, i + 1) = v \/ Idx(indices, i + 2) = v

(* The filter loop of index.js:307-314 from flat position i on. *)
RECURSIVE DeleteEdgeFilterMutAny(_, _, _, _)
DeleteEdgeFilterMutAny(indices, i, v1, v2) ==
    IF i >= Len(indices) THEN << >>
    ELSE (IF ~(TriIncludes(indices, i, v1) \/ TriIncludes(indices, i, v2))
          THEN <<Idx(indices, i), Idx(indices, i + 1), Idx(indices, i + 2)>>
          ELSE << >>)
         \o DeleteEdgeFilterMutAny(indices, i + 3, v1, v2)

RECURSIVE DeleteEdgeFilter(_, _, _, _)
DeleteEdgeFilter(indices, i, v1, v2) ==
    IF i >= Len(indices) THEN << >>
    ELSE (IF ~(TriIncludes(indices, i, v1) /\ TriIncludes(indices, i, v2))
          THEN <<Idx(indices, i), Idx(indices, i + 1), Idx(indices, i + 2)>>
          ELSE << >>)
         \o DeleteEdgeFilter(indices, i + 3, v1, v2)

(* people[idx * 2] = x; people[idx * 2 + 1] = y (index.js:345-346): beyond *)
(* the end the array grows, with holes; a negative index sets no element.  *)
SetPoint(ppl, idx, p) ==
    IF idx < 0 THEN ppl
    ELSE IF idx < Len(ppl) THEN [ppl EXCEPT ![idx + 1] = p]
    ELSE ppl \o [k \in 1..(idx - Len(ppl)) |-> UndefPt] \o <<p>>

(* update(retriangulate) (index.js:396-433), called with the state the     *)
(* handler has built so far.  A throw of updateCollisions leaves it all.   *)
(* The handlers bind its result once, as the one element of a set.         *)
UpdateMesh(updatedPositions, tri2, density) ==
    [threw    |-> updatedPositions.threw,
     people   |-> updatedPositions.people,
     dots     |-> updatedPositions.dots,
     triangle |-> tri2,
     triangleDensity |-> getTriangleDensity(tri2, updatedPositions.people, density),
     lines    |-> [vertices |-> tri2.vertices,
                   indices |-> convertTriangleIndicesToLineIndices(tri2.indices)]]

UpdateWithMutAlways(ob, b, tri, density, retriangulate, updatedPositions) ==
    UpdateMesh(updatedPositions,
               triangulateWithObstacle(ob, updatedPositions.dots \o corners(b)),
               density)

UpdateWith(ob, b, tri, density, retriangulate, updatedPositions) ==
    UpdateMesh(updatedPositions,
               IF retriangulate
               THEN triangulateWithObstacle(ob, updatedPositions.dots \o corners(b))
               ELSE tri,
               density)

update(ob, b, ppl, dts, tri, nDots, nPeople, density, retriangulate, rnd) ==
    UpdateWith(ob, b, tri, density, retriangulate,
               updateCollisions(ob, ppl, dts, nDots, nPeople, rnd))

(* The draws update() may consume: one per createNewPosition call. *)
UpdateDraws(ob, ppl, dts, nDots, nPeople) ==
    [1..(SpawnCount(ob, ppl, nPeople) + SpawnCount(ob, dts, nDots)) -> AppDraws]

(* The effect of a call of update() on people, dots, triangle,             *)
(* triangleDensity and lines.                                              *)
RunUpdate(r, ppl, dts, tri) ==
    IF r.threw
    THEN /\ people' = ppl /\ dots' = dts /\ triangle' = tri
         /\ UNCHANGED <<triangleDensity, lines>>
    ELSE /\ people' = r.people /\ dots' = r.dots /\ triangle' = r.triangle
         /\ triangleDensity' = r.triangleDensity /\ lines' = r.lines

UcOf(r) == IF r.threw THEN "threw" ELSE "returned"

(* One more event of the page, within the event budget. *)
Tick == used < MaxEvents /\ used' = used + 1

(* main() up to the first frame (index.js:145-193): the constructed state, *)
(* for every outcome of the random placement that does not throw.          *)
Init ==
    /\ keyboardEvents = {}
    /\ obstacle = MakeObstacle(0, 0, ScaleOne, 0)
    /\ bounds = MakeBounds(1)
    /\ NUMBER_OF_PEOPLE = MaxPeople
    /\ NUMBER_OF_DOTS = InitDots
    /\ DENSITY = MaxDensity
    /\ \E p0 \in [1..NUMBER_OF_PEOPLE -> FreshPts], d0 \in [1..NUMBER_OF_DOTS -> FreshPts] :
         \E rnd \in UpdateDraws(MakeObstacle(0, 0, ScaleOne, 0), p0, d0,
                                 NUMBER_OF_DOTS, NUMBER_OF_PEOPLE) :
           LET r == update(MakeObstacle(0, 0, ScaleOne, 0), MakeBounds(1), p0, d0, EmptyMesh,
                           NUMBER_OF_DOTS, NUMBER_OF_PEOPLE, MaxDensity, TRUE, rnd)
           IN /\ ~r.threw
              /\ people = r.people /\ dots = r.dots /\ triangle = r.triangle
              /\ triangleDensity = r.triangleDensity /\ lines = r.lines
    /\ isDragging = FALSE /\ draggedPointIndex = -1
    /\ editMode = "none" /\ triangleSelection = << >>
    /\ renderAlive = TRUE
    /\ used = 0
    /\ ev = [op |-> "init", uc |-> "returned", spawned |-> 0]

(* render (index.js:439-466): calculateMovements, then update() if a key   *)
(* moved the obstacle, then the draw calls.  A throw of update() ends the  *)
(* frame before requestAnimationFrame(render).                             *)
Render ==
    /\ Tick
    /\ renderAlive
    /\ \E m \in {calculateMovements(keyboardEvents, obstacle, bounds, minScale, maxScale)} :
          /\ obstacle' = m.object
          /\ IF m.movement
             THEN /\ \E rnd \in UpdateDraws(m.object, people, dots, NUMBER_OF_DOTS, NUMBER_OF_PEOPLE) :
                       \E r \in {update(m.object, bounds, people, dots, triangle, NUMBER_OF_DOTS,
                                       NUMBER_OF_PEOPLE, DENSITY, TRUE, rnd)} :
                          /\ RunUpdate(r, people, dots, triangle)
                          /\ renderAlive' = ~r.threw
                          /\ ev' = [op |-> "render", uc |-> UcOf(r), movement |-> TRUE,
                                    spawned |-> Len(rnd)]
             ELSE /\ UNCHANGED <<people, dots, triangle, triangleDensity, lines, renderAlive>>
                  /\ ev' = [op |-> "render", uc |-> "none", movement |-> FALSE, spawned |-> 0]
    /\ UNCHANGED <<keyboardEvents, bounds, NUMBER_OF_PEOPLE, NUMBER_OF_DOTS, DENSITY,
                   isDragging, draggedPointIndex, editMode, triangleSelection>>

(* mousedown in mode addTriangle (index.js:272-300). *)
MouseDownAdd(mouseWorld) ==
    /\ editMode = "addTriangle"
    /\ LET allTriPoints == dots \o corners(bounds) \o getObstacleCorners(obstacle)
           pickedVertexIndex == PickNearest(allTriPoints, mouseWorld)
           accepted == /\ pickedVertexIndex # -1
                       /\ \A k \in 1..Len(triangleSelection) :
                            triangleSelection[k] # pickedVertexIndex
           selection == Append(triangleSelection, pickedVertexIndex)
       IN IF accepted /\ Len(selection) = 3
          THEN /\ triangleSelection' = << >>
               /\ LET tri == [triangle EXCEPT !.indices = @ \o selection]
                  IN \E rnd \in UpdateDraws(obstacle, people, dots, NUMBER_OF_DOTS, NUMBER_OF_PEOPLE) :
                       \E r \in {update(obstacle, bounds, people, dots, tri, NUMBER_OF_DOTS,
                                       NUMBER_OF_PEOPLE, DENSITY, FALSE, rnd)} :
                          /\ RunUpdate(r, people, dots, tri)
                          /\ ev' = [op |-> "addTriangle", uc |-> UcOf(r), spawned |-> Len(rnd),
                                    picked |-> pickedVertexIndex, added |-> selection]
          ELSE /\ triangleSelection' = IF accepted THEN selection ELSE triangleSelection
               /\ ev' = [op |-> "addPick", uc |-> "none", spawned |-> 0,
                         picked |-> pickedVertexIndex]
               /\ UNCHANGED <<people, dots, triangle, triangleDensity, lines>>
    /\ UNCHANGED <<keyboardEvents, obstacle, bounds, NUMBER_OF_PEOPLE, NUMBER_OF_DOTS, DENSITY,
                   isDragging, draggedPointIndex, editMode, renderAlive>>

(* The guard of index.js:305, closest && closest.distance < pickRadius:    *)
(* closest is always an object, and Infinity < pickRadius is false.        *)
DeleteGuardMutNoDistance(closest) == TRUE

DeleteGuard(closest) ==
    /\ closest.distanceSq # << >>
    /\ closest.distanceSq[1] < pickRadius * pickRadius

(* A delete-edge click that changes nothing: the guard was false (miss),   *)
(* or const [v1, v2] = closest.edge (index.js:306) threw on a null edge.   *)
DeleteNoEffect(closest, op) ==
    /\ UNCHANGED <<people, dots, triangle, triangleDensity, lines>>
    /\ ev' = [op |-> op, uc |-> "none", spawned |-> 0,
              edge |-> closest.edge, distanceSq |-> closest.distanceSq]

(* mousedown in mode deleteEdge (index.js:302-318). *)
MouseDownDelete(mouseWorld) ==
    /\ editMode = "deleteEdge"
    /\ \E closest \in {findClosestEdge(mouseWorld, triangle.vertices, triangle.indices)} :
          IF ~DeleteGuard(closest) THEN DeleteNoEffect(closest, "deleteMiss")
          ELSE IF closest.edge = NullVal THEN DeleteNoEffect(closest, "deleteThrew")
          ELSE /\ LET newIndices == DeleteEdgeFilter(triangle.indices, 0,
                                                     closest.edge[1], closest.edge[2])
                      tri == [triangle EXCEPT !.indices = newIndices]
                  IN \E rnd \in UpdateDraws(obstacle, people, dots, NUMBER_OF_DOTS, NUMBER_OF_PEOPLE) :
                       \E r \in {update(obstacle, bounds, people, dots, tri, NUMBER_OF_DOTS,
                                       NUMBER_OF_PEOPLE, DENSITY, FALSE, rnd)} :
                          /\ RunUpdate(r, people, dots, tri)
                          /\ ev' = [op |-> "deleteEdge", uc |-> UcOf(r), spawned |-> Len(rnd),
                                    edge |-> closest.edge,
                                    distanceSq |-> closest.distanceSq]
    /\ UNCHANGED <<keyboardEvents, obstacle, bounds, NUMBER_OF_PEOPLE, NUMBER_OF_DOTS, DENSITY,
                   isDragging, draggedPointIndex, editMode, triangleSelection, renderAlive>>

(* mousedown in mode none (index.js:320-335). *)
MouseDownDrag(mouseWorld) ==
    /\ editMode = "none"
    /\ LET picked == PickNearest(people, mouseWorld)
       IN /\ draggedPointIndex' = picked
          /\ isDragging' = IF picked # -1 THEN TRUE ELSE isDragging
          /\ ev' = [op |-> "dragPick", uc |-> "none", spawned |-> 0, picked |-> picked,
                    mouse |-> mouseWorld]
    /\ UNCHANGED <<keyboardEvents, obstacle, bounds, people, dots, NUMBER_OF_PEOPLE,
                   NUMBER_OF_DOTS, DENSITY, triangle, lines, triangleDensity, editMode,
                   triangleSelection, renderAlive>>

(* mousedown (index.js:267-336), by the branch editMode selects. *)
MouseDownInAdd == \E mouseWorld \in MousePts : Tick /\ MouseDownAdd(mouseWorld)

MouseDownInDelete == \E mouseWorld \in MousePts : Tick /\ MouseDownDelete(mouseWorld)

MouseDownInNone == \E mouseWorld \in MousePts : Tick /\ MouseDownDrag(mouseWorld)

(* mousemove (index.js:338-349); without a drag it returns at once. *)
MouseMove ==
    \E mouseWorld \in MousePts :
        /\ Tick
        /\ isDragging
        /\ people' = SetPoint(people, draggedPointIndex, mouseWorld)
        /\ ev' = [op |-> "mousemove", uc |-> "none", spawned |-> 0]
        /\ UNCHANGED <<keyboardEvents, obstacle, bounds, dots, NUMBER_OF_PEOPLE,
                       NUMBER_OF_DOTS, DENSITY, triangle, lines, triangleDensity, isDragging,
                       draggedPointIndex, editMode, triangleSelection, renderAlive>>

(* mouseup (index.js:351-358); without a drag it does nothing. *)
MouseUp ==
    /\ Tick
    /\ isDragging
    /\ isDragging' = FALSE
    /\ draggedPointIndex' = -1
    /\ \E rnd \in UpdateDraws(obstacle, people, dots, NUMBER_OF_DOTS, NUMBER_OF_PEOPLE) :
         \E r \in {update(obstacle, bounds, people, dots, triangle, NUMBER_OF_DOTS,
                         NUMBER_OF_PEOPLE, DENSITY, FALSE, rnd)} :
            /\ RunUpdate(r, people, dots, triangle)
            /\ ev' = [op |-> "mouseup", uc |-> UcOf(r), spawned |-> Len(rnd)]
    /\ UNCHANGED <<keyboardEvents, obstacle, bounds, NUMBER_OF_PEOPLE, NUMBER_OF_DOTS, DENSITY,
                   editMode, triangleSelection, renderAlive>>

(* mousemove without a drag (index.js:339-341): the handler returns. *)
MouseMoveIdle ==
    /\ Tick
    /\ ~isDragging
    /\ ev' = [op |-> "mousemoveIdle", uc |-> "none", spawned |-> 0]
    /\ UNCHANGED <<keyboardEvents, obstacle, bounds, people, dots, NUMBER_OF_PEOPLE,
                   NUMBER_OF_DOTS, DENSITY, triangle, lines, triangleDensity, isDragging,
                   draggedPointIndex, editMode, triangleSelection, renderAlive>>

(* mouseup without a drag (index.js:352): the handler does nothing. *)
MouseUpIdle ==
    /\ Tick
    /\ ~isDragging
    /\ ev' = [op |-> "mouseupIdle", uc |-> "none", spawned |-> 0]
    /\ UNCHANGED <<keyboardEvents, obstacle, bounds, people, dots, NUMBER_OF_PEOPLE,
                   NUMBER_OF_DOTS, DENSITY, triangle, lines, triangleDensity, isDragging,
                   draggedPointIndex, editMode, triangleSelection, renderAlive>>

(* The mode buttons (index.js:361-375). *)
ModeButtonMutKeepSelection ==
    \E mode \in {"none", "addTriangle", "deleteEdge"} :
        /\ Tick
        /\ editMode' = mode
        /\ ev' = [op |-> "mode", uc |-> "none", spawned |-> 0]
        /\ UNCHANGED <<keyboardEvents, obstacle, bounds, people, dots, NUMBER_OF_PEOPLE,
                       NUMBER_OF_DOTS, DENSITY, triangle, lines, triangleDensity, isDragging,
                       draggedPointIndex, triangleSelection, renderAlive>>

ModeButton ==
    \E mode \in {"none", "addTriangle", "deleteEdge"} :
        /\ Tick
        /\ editMode' = mode
        /\ triangleSelection' = << >>
        /\ ev' = [op |-> "mode", uc |-> "none", spawned |-> 0]
        /\ UNCHANGED <<keyboardEvents, obstacle, bounds, people, dots, NUMBER_OF_PEOPLE,
                       NUMBER_OF_DOTS, DENSITY, triangle, lines, triangleDensity, isDragging,
                       draggedPointIndex, renderAlive>>

(* The slider handler (index.js:380-391) for the values now on the sliders. *)
SliderTo(numDots, numPeople, density) ==
    /\ Tick
    /\ NUMBER_OF_DOTS' = numDots
    /\ NUMBER_OF_PEOPLE' = numPeople
    /\ DENSITY' = density
    /\ \E freshPeople \in [1..Max2(0, numPeople - Len(people)) -> FreshPts],
          freshDots \in [1..Max2(0, numDots - Len(dots)) -> FreshPts] :
         \E regenerated \in {resetAndRegeneratePoints(numDots, numPeople, dots, people,
                                                        freshPeople, freshDots)} :
            \E rnd \in UpdateDraws(obstacle, regenerated.people, regenerated.dots,
                                   numDots, numPeople) :
              \E r \in {update(obstacle, bounds, regenerated.people, regenerated.dots, triangle,
                              numDots, numPeople, density, FALSE, rnd)} :
                 /\ RunUpdate(r, regenerated.people, regenerated.dots, triangle)
                 /\ ev' = [op |-> "slider", uc |-> UcOf(r), spawned |-> Len(rnd),
                           regenerated |-> regenerated,
                           old |-> <<Len(people), Len(dots)>>]
    /\ UNCHANGED <<keyboardEvents, obstacle, bounds, isDragging, draggedPointIndex, editMode,
                   triangleSelection, renderAlive>>

(* An input event of one slider: that slider has a new value. *)
Slider ==
    \/ \E v \in (1..MaxDots) \ {NUMBER_OF_DOTS} : SliderTo(v, NUMBER_OF_PEOPLE, DENSITY)
    \/ \E v \in (1..MaxPeople) \ {NUMBER_OF_PEOPLE} : SliderTo(NUMBER_OF_DOTS, v, DENSITY)
    \/ \E v \in (0..MaxDensity) \ {DENSITY} : SliderTo(NUMBER_OF_DOTS, NUMBER_OF_PEOPLE, v)

AppKeyDown == Tick /\ \E k \in AppKeys : KeyDown(k)

AppKeyUp == Tick /\ \E k \in AppKeys : KeyUp(k)

Next ==
    \/ AppKeyDown \/ AppKeyUp \/ Render
    \/ MouseDownInAdd \/ MouseDownInDelete \/ MouseDownInNone
    \/ MouseMove \/ MouseUp \/ MouseMoveIdle \/ MouseUpIdle
    \/ ModeButton \/ Slider

Spec == Init /\ [][Next]_vars

-----------------------------------------------------------------------------
(* SpecDensity: getTriangleDensity on sample meshes, crowds and thresholds. *)

MaxCrowd == 2          \* people placed in one run of SpecDensity
MaxThreshold == 2      \* largest density threshold of SpecDensity

(* One triangle; two triangles that share an edge; those two with a third, *)
(* far one listed between them.                                            *)
DensityMeshes ==
    { [vertices |-> << <<0, 0>>, <<10, 0>>, <<0, 10>> >>, indices |-> <<0, 1, 2>>],
      [vertices |-> << <<0, 0>>, <<10, 0>>, <<0, 10>>, <<10, 10>> >>,
       indices  |-> <<0, 1, 2, 1, 3, 2>>],
      [vertices |-> << <<0, 0>>, <<10, 0>>, <<0, 10>>, <<10, 10>>,
                       <<20, 20>>, <<30, 20>>, <<20, 30>> >>,
       indices  |-> <<0, 1, 2, 4, 5, 6, 1, 3, 2>>] }

(* Inside the first triangle; inside the second; on the shared edge; in    *)
(* the far triangle; outside all; on a vertex the first two share.         *)
DensityPts == {<<2, 2>>, <<8, 8>>, <<5, 5>>, <<22, 22>>, <<40, 40>>, <<10, 0>>}

InitDensity ==
    /\ triangle \in DensityMeshes
    /\ people = << >>
    /\ DENSITY = 0
    /\ triangleDensity = getTriangleDensity(triangle, people, DENSITY)
    /\ lines = EmptyMesh /\ dots = << >>
    /\ obstacle = MakeObstacle(0, 0, ScaleOne, 0) /\ bounds = MakeBounds(1)
    /\ keyboardEvents = {}
    /\ NUMBER_OF_PEOPLE = 0 /\ NUMBER_OF_DOTS = 0
    /\ isDragging = FALSE /\ draggedPointIndex = -1
    /\ editMode = "none" /\ triangleSelection = << >>
    /\ renderAlive = TRUE
    /\ used = 0
    /\ ev = [op |-> "getTriangleDensity"]

DensityFrame ==
    UNCHANGED <<keyboardEvents, obstacle, bounds, dots, NUMBER_OF_PEOPLE, NUMBER_OF_DOTS,
                triangle, lines, isDragging, draggedPointIndex, editMode,
                triangleSelection, renderAlive, used>>

(* One more person in the crowd; the classification is now out of date. *)
PlacePerson ==
    \E p \in DensityPts :
        /\ Len(people) < MaxCrowd
        /\ people' = Append(people, p)
        /\ ev' = [op |-> "place"]
        /\ UNCHANGED <<DENSITY, triangleDensity>>
        /\ DensityFrame

(* Another threshold; the classification is now out of date. *)
SetThreshold ==
    \E v \in (0..MaxThreshold) \ {DENSITY} :
        /\ DENSITY' = v
        /\ ev' = [op |-> "threshold"]
        /\ UNCHANGED <<people, triangleDensity>>
        /\ DensityFrame

(* triangleDensity = getTriangleDensity(triangle, people, DENSITY) (index.js:411). *)
Classify ==
    /\ ev.op # "getTriangleDensity"
    /\ triangleDensity' = getTriangleDensity(triangle, people, DENSITY)
    /\ ev' = [op |-> "getTriangleDensity"]
    /\ UNCHANGED <<people, DENSITY>>
    /\ DensityFrame

NextDensity == PlacePerson \/ SetThreshold \/ Classify

SpecDensity == InitDensity /\ [][NextDensity]_vars

-----------------------------------------------------------------------------
(* Properties of getTriangleDensity, under SpecDensity. *)

Classified == ev.op = "getTriangleDensity"

Buckets == {"red", "orange", "blue"}

(* The triangles of a mesh as triples of coordinates, in index order. *)
CoordTris(mesh) ==
    [k \in 1..(Len(mesh.indices) \div 3) |->
        << Vtx(mesh.vertices, mesh.indices[3 * k - 2]),
           Vtx(mesh.vertices, mesh.indices[3 * k - 1]),
           Vtx(mesh.vertices, mesh.indices[3 * k]) >>]

(* The entries of seq whose position f maps to c, in order. *)
RECURSIVE Pick(_, _, _, _)
Pick(seq, f, c, k) ==
    IF k > Len(seq) THEN << >>
    ELSE (IF f[k] = c THEN <<seq[k]>> ELSE << >>) \o Pick(seq, f, c, k + 1)

(* C7: after every getTriangleDensity call the three buckets partition the *)
(* source triangles: their triangle counts sum to the source's, and some    *)
(* assignment of each source triangle to exactly one bucket gives, bucket  *)
(* by bucket, the bucket's triangles (by coordinates) in source order.     *)
C7_BucketCoverage ==
    Classified =>
      LET src == CoordTris(triangle)
      IN /\ Len(triangleDensity.red.indices) + Len(triangleDensity.orange.indices)
            + Len(triangleDensity.blue.indices) = Len(triangle.indices)
         /\ \E f \in [1..Len(src) -> Buckets] :
              \A c \in Buckets : CoordTris(triangleDensity[c]) = Pick(src, f, c, 1)

(* A classified mesh of three triangles with one triangle in each bucket. *)
C7_Witness ==
    /\ Classified
    /\ Len(triangle.indices) = 9
    /\ \A c \in Buckets : Len(triangleDensity[c].indices) = 3

(* The people inside the k-th source triangle, counted from the claim's    *)
(* side: a person is inside when it is on no two opposite sides of edges.  *)
Side(p, a, b) == (p[1] - b[1]) * (a[2] - b[2]) - (a[1] - b[1]) * (p[2] - b[2])

Contains(t, p) ==
    ~ /\ \E e \in {<<1, 2>>, <<2, 3>>, <<3, 1>>} : Side(p, t[e[1]], t[e[2]]) < 0
      /\ \E e \in {<<1, 2>>, <<2, 3>>, <<3, 1>>} : Side(p, t[e[1]], t[e[2]]) > 0

CountIn(t) == Cardinality({j \in 1..Len(people) : Contains(t, people[j])})

HasTri(c, t) == \E k \in 1..Len(CoordTris(triangleDensity[c])) : CoordTris(triangleDensity[c])[k] = t

(* C8: after every getTriangleDensity call a triangle with more people     *)
(* than the threshold is in red (over), with exactly the threshold in      *)
(* orange (correct), with fewer in blue (under), and in no other bucket.   *)
C8_BucketAssignment ==
    Classified =>
      \A k \in 1..Len(CoordTris(triangle)) :
        LET t == CoordTris(triangle)[k]
            want == IF CountIn(t) > DENSITY THEN "red"
                    ELSE IF CountIn(t) = DENSITY THEN "orange" ELSE "blue"
        IN \A c \in Buckets : HasTri(c, t) <=> (c = want)

(* Threshold 1 with two, one and no people in the three triangles. *)
C8_Witness ==
    /\ Classified
    /\ DENSITY = 1
    /\ Len(triangle.indices) = 9
    /\ {CountIn(CoordTris(triangle)[k]) : k \in 1..3} = {0, 1, 2}

(* The mesh of C9: the single triangle (0,0), (10,0), (0,10). *)
C9Mesh == [vertices |-> << <<0, 0>>, <<10, 0>>, <<0, 10>> >>, indices |-> <<0, 1, 2>>]

C9Case == Classified /\ triangle = C9Mesh /\ DENSITY = 0

(* C9 as stated: with threshold 0 the triangle is over (red) with one      *)
(* person at (2,2) and under (blue) with no people.                        *)
C9_ScenarioAsStated ==
    C9Case =>
      /\ people = << <<2, 2>> >> => triangleDensity.red.indices = <<0, 1, 2>>
      /\ people = << >> => triangleDensity.blue.indices = <<0, 1, 2>>

(* C9, amended: with threshold 0 the triangle is over (red) with one       *)
(* person at (2,2), and correct (orange) with no people, for 0 = 0; red    *)
(* and blue are then empty.                                                *)
C9_Scenario ==
    C9Case =>
      /\ people = << <<2, 2>> >> =>
           /\ triangleDensity.red = C9Mesh
           /\ triangleDensity.orange = EmptyMesh /\ triangleDensity.blue = EmptyMesh
      /\ people = << >> =>
           /\ triangleDensity.orange = C9Mesh
           /\ triangleDensity.red = EmptyMesh /\ triangleDensity.blue = EmptyMesh

C9_Witness == C9Case /\ people = << >> /\ triangleDensity.orange = C9Mesh

-----------------------------------------------------------------------------
(* Properties of the application, under Spec. *)

(* C1: every entry of the mesh's index list is a valid vertex index: at    *)
(* least 0 and less than the number of vertices of the mesh.               *)
C1_MeshIndexValid ==
    \A k \in 1..Len(triangle.indices) :
        0 <= triangle.indices[k] /\ triangle.indices[k] < Len(triangle.vertices)

(* The obstacle's collision predicate, from the claim's side: the point,   *)
(* taken into the obstacle's frame, is within the half extents, edges      *)
(* included.  A point without coordinates collides with nothing.          *)
Collides(ob, p) ==
    p # UndefPt /\
    LET q == Rotate(<<p[1] - ob.x, p[2] - ob.y>>, -ob.rotation)
        halfLength == (ob.length * ob.scale) \div (2 * ScaleOne)
        halfWidth  == (ob.width * ob.scale) \div (2 * ScaleOne)
    IN Abs(q[1]) <= halfLength /\ Abs(q[2]) <= halfWidth

(* C2: whenever updateCollisions has returned, no point of people and no   *)
(* point of dots collides with the obstacle as it is now.                  *)
C2_CollisionExclusion ==
    ev.uc = "returned" =>
      /\ \A k \in 1..Len(people) : ~Collides(obstacle, people[k])
      /\ \A k \in 1..Len(dots) : ~Collides(obstacle, dots[k])

(* A moving frame whose updateCollisions spawned a point and returned. *)
C2_Witness == ev.op = "render" /\ ev.uc = "returned" /\ ev.spawned > 0

(* C6: updateCollisions never ends in an exception: a spawn that exhausts  *)
(* its attempts is skipped and the call returns.                           *)
C6_ExhaustionReturns == ev.uc # "threw"

(* The index triples of an index list, in order. *)
Triples(indices) ==
    [k \in 1..(Len(indices) \div 3) |->
        <<indices[3 * k - 2], indices[3 * k - 1], indices[3 * k]>>]

HasBoth(t, a, b) == (\E i \in 1..3 : t[i] = a) /\ (\E i \in 1..3 : t[i] = b)

(* The triples without those that contain both a and b, in order. *)
RECURSIVE Without(_, _, _)
Without(tris, a, b) ==
    IF tris = << >> THEN << >>
    ELSE (IF HasBoth(Head(tris), a, b) THEN << >> ELSE <<Head(tris)>>)
         \o Without(Tail(tris), a, b)

(* A step of the delete-edge click that found an edge within reach: the    *)
(* only step that records deleteEdge and changes the mesh.                 *)
DeleteStep == ev'.op = "deleteEdge" /\ triangle' # triangle

(* C10: deleting the edge (a,b) removes exactly the triangles whose triple *)
(* holds both a and b, keeps every other triangle as it was and in its     *)
(* order, and leaves mesh.vertices alone.                                  *)
C10_EdgeDeletion ==
    [][DeleteStep =>
         /\ Triples(triangle'.indices)
              = Without(Triples(triangle.indices), ev'.edge[1], ev'.edge[2])
         /\ Len(triangle'.indices) = 3 * Len(Triples(triangle'.indices))
         /\ triangle'.vertices = triangle.vertices]_vars

(* After a deletion that removed some triangles and kept others. *)
C10_Witness == ev.op = "deleteEdge" /\ triangle.indices # << >>

-----------------------------------------------------------------------------
(* C11: after the slider handler has run for a changed dot count, the mesh *)
(* is rebuilt: mesh.vertices is the current dots, then the 4 arena corners *)
(* and the 4 obstacle corners, and mesh.indices is the triangulation of    *)
(* those points.                                                           *)
C11_SliderRebuildsMesh ==
    [][(ev'.op = "slider" /\ NUMBER_OF_DOTS' # NUMBER_OF_DOTS) =>
         /\ triangle'.vertices
              = dots' \o corners(bounds') \o getObstacleCorners(obstacle')
         /\ triangle'.indices
              = triangulateWithObstacle(obstacle', dots' \o corners(bounds')).indices]_vars

(* C12: in every frame in which calculateMovements changes the obstacle's  *)
(* x, y, rotation or scale, it returns movement = true, the flag on which  *)
(* render runs update() with retriangulate = true before it draws.         *)
C12_ChangeTriggersUpdate ==
    [][(ev'.op = "calculateMovements" /\ Pose(obstacle') # Pose(obstacle))
         => ev'.movement]_vars

(* The records a delete-edge click leaves: a deletion, a click that the    *)
(* guard turned down, or a click whose handler threw.                      *)
DeleteOps == {"deleteEdge", "deleteMiss", "deleteThrew"}

(* A step of the mousedown handler in mode deleteEdge: an event other than *)
(* a key event that leaves one of these records.                           *)
DeleteClick ==
    /\ used' # used
    /\ keyboardEvents' = keyboardEvents
    /\ editMode = "deleteEdge"
    /\ ev'.op \in DeleteOps

-----------------------------------------------------------------------------
(* SpecEdge: findClosestEdge on sample meshes and query points.            *)

(* The vertices of the sample meshes: the triangle of the concrete         *)
(* scenario, a fourth corner, and three vertices that lie on one point.    *)
(* The triangle <<2, 3, 7>> names a vertex the mesh does not have.         *)
EdgeVertices ==
    << <<0, 0>>, <<100, 0>>, <<50, 100>>, <<0, 100>>,
       <<150, 100>>, <<150, 100>>, <<150, 100>> >>

EdgeTriangles == { <<0, 1, 2>>, <<0, 2, 3>>, <<1, 4, 2>>, <<4, 5, 6>>, <<2, 3, 7>> }

MaxTriangles == 2      \* triangles of a sample mesh of SpecEdge

EdgeMeshes ==
    { [vertices |-> EdgeVertices, indices |-> Flat(ts)] :
        ts \in UNION { [1..n -> EdgeTriangles] : n \in 0..MaxTriangles } }

EdgePts == { <<50, 0>>, <<50, 50>>, <<150, 100>>, <<150, 50>>, <<-30, 40>>, <<0, 150>> }

InitEdge ==
    /\ triangle \in EdgeMeshes
    /\ ev = [op |-> "mesh"]
    /\ obstacle = MakeObstacle(0, 0, ScaleOne, 0)
    /\ bounds = MakeBounds(1)
    /\ keyboardEvents = {}
    /\ people = << >> /\ dots = << >>
    /\ NUMBER_OF_PEOPLE = 0 /\ NUMBER_OF_DOTS = 0 /\ DENSITY = 0
    /\ lines = EmptyMesh /\ triangleDensity = EmptyDensity
    /\ isDragging = FALSE /\ draggedPointIndex = -1
    /\ editMode = "deleteEdge" /\ triangleSelection = << >>
    /\ renderAlive = TRUE
    /\ used = 0

(* One call findClosestEdge(point, triangle.vertices, triangle.indices). *)
EdgeQuery ==
    /\ \E point \in EdgePts :
         \E closest \in {findClosestEdge(point, triangle.vertices, triangle.indices)} :
            ev' = [op |-> "findClosestEdge", point |-> point,
                   edge |-> closest.edge, distanceSq |-> closest.distanceSq]
    /\ UNCHANGED <<keyboardEvents, obstacle, bounds, people, dots, NUMBER_OF_PEOPLE,
                   NUMBER_OF_DOTS, DENSITY, triangle, lines, triangleDensity, isDragging,
                   draggedPointIndex, editMode, triangleSelection, renderAlive, used>>

(* The mesh is replaced by another sample mesh. *)
EdgeSetMesh ==
    /\ \E mesh \in EdgeMeshes \ {triangle} : triangle' = mesh
    /\ ev' = [op |-> "mesh"]
    /\ UNCHANGED <<keyboardEvents, obstacle, bounds, people, dots, NUMBER_OF_PEOPLE,
                   NUMBER_OF_DOTS, DENSITY, lines, triangleDensity, isDragging,
                   draggedPointIndex, editMode, triangleSelection, renderAlive, used>>

NextEdge == EdgeQuery \/ EdgeSetMesh

SpecEdge == InitEdge /\ [][NextEdge]_vars

(* The squared distance from p to the segment a-b as the exact fraction    *)
(* <<numerator, denominator>>: to a if the projection falls before a, to b *)
(* if it falls after b, else to the line; a segment of length zero is the  *)
(* point a; <<1, 0>>, larger than every distance, if an end is missing.    *)
SegDistSq(p, a, b) ==
    IF a = UndefPt \/ b = UndefPt THEN <<1, 0>> ELSE
    LET l2  == (b[1] - a[1]) * (b[1] - a[1]) + (b[2] - a[2]) * (b[2] - a[2])
        dot == (p[1] - a[1]) * (b[1] - a[1]) + (p[2] - a[2]) * (b[2] - a[2])
        crs == (p[1] - a[1]) * (b[2] - a[2]) - (p[2] - a[2]) * (b[1] - a[1])
        da  == (p[1] - a[1]) * (p[1] - a[1]) + (p[2] - a[2]) * (p[2] - a[2])
        db  == (p[1] - b[1]) * (p[1] - b[1]) + (p[2] - b[2]) * (p[2] - b[2])
    IN IF l2 = 0 \/ dot <= 0 THEN <<da, 1>>
       ELSE IF dot >= l2 THEN <<db, 1>>
       ELSE <<crs * crs, l2>>

FracLeq(f, g) == f[1] * g[2] <= g[1] * f[2]

(* The edges of the mesh, and those of them whose two ends are vertices of *)
(* the mesh at different places.                                           *)
MeshEdges == { EdgeList(triangle.indices)[k] : k \in 1..Len(triangle.indices) }

LongEdges ==
    { e \in MeshEdges :
        /\ Vtx(triangle.vertices, e[1]) # UndefPt
        /\ Vtx(triangle.vertices, e[2]) # UndefPt
        /\ Vtx(triangle.vertices, e[1]) # Vtx(triangle.vertices, e[2]) }

(* A sample point in whole units: the samples are multiples of 10 tenths. *)
Units(p) == IF p = UndefPt THEN UndefPt ELSE <<p[1] \div 10, p[2] \div 10>>

EdgeDist(e) ==
    SegDistSq(Units(ev.point), Units(Vtx(triangle.vertices, e[1])),
              Units(Vtx(triangle.vertices, e[2])))

(* The returned edge is among `edges`, no edge of `edges` is nearer to the *)
(* query point, and the returned distance is the distance to that edge.    *)
ClosestAmong(edges) ==
    /\ ev.edge \in edges
    /\ \A e \in edges : FracLeq(EdgeDist(ev.edge), EdgeDist(e))
    /\ ev.distanceSq # << >>
    /\ ev.distanceSq[1] * EdgeDist(ev.edge)[2] = 100 * EdgeDist(ev.edge)[1]

(* The concrete scenario: findClosestEdge({x:5,y:0}, [0,0, 10,0, 5,10],    *)
(* [0,1,2]) is the edge (0,1) at distance 0.                               *)
EdgeScenario ==
    (ev.point = <<50, 0>> /\ triangle.indices = <<0, 1, 2>>)
      => (ev.edge = <<0, 1>> /\ ev.distanceSq = <<0>>)

AfterQuery == ev.op = "findClosestEdge"

(* Every index of the mesh names one of its vertices. *)
IndicesValid ==
    \A k \in 1..Len(triangle.indices) : Vtx(triangle.vertices, triangle.indices[k]) # UndefPt

(* C14 as stated: for every point and every mesh with at least one         *)
(* triangle (and valid indices), findClosestEdge returns an edge of a      *)
(* triangle that is nearest to the point among all edges of all triangles, *)
(* with that distance.                                                     *)
C14_ClosestEdgeAsStated ==
    (AfterQuery /\ triangle.indices # << >> /\ IndicesValid)
      => (ClosestAmong(MeshEdges) /\ EdgeScenario)

(* C14: for every point and every mesh with at least one edge of non-zero  *)
(* length between two of its vertices, findClosestEdge returns an edge     *)
(* that is nearest to the point among those edges, with that distance;     *)
(* edges whose two ends coincide or are not vertices of the mesh are       *)
(* skipped, and a mesh that has no other edge gives the null edge with     *)
(* infinite distance, as the mesh without triangles does.                  *)
C14_ClosestEdge ==
    AfterQuery =>
      /\ LongEdges # {} => ClosestAmong(LongEdges)
      /\ LongEdges = {} => (ev.edge = NullVal /\ ev.distanceSq = << >>)
      /\ EdgeScenario

(* A query that is nearest to an edge other than the first, in a mesh that *)
(* also has edges of length zero.                                          *)
C14_Witness ==
    /\ AfterQuery
    /\ triangle.indices = <<4, 5, 6, 1, 4, 2>>
    /\ ev.point = <<50, 50>>
    /\ ev.edge = <<2, 1>>

-----------------------------------------------------------------------------
(* A step of the mousedown handler in mode addTriangle: an event other     *)
(* than a key event that leaves the record of a pick.                      *)
AddClick ==
    /\ used' # used
    /\ keyboardEvents' = keyboardEvents
    /\ editMode = "addTriangle"
    /\ ev'.op \in {"addPick", "addTriangle"}

(* The click picked a vertex that is not yet selected. *)
FreshPick ==
    /\ ev'.picked # -1
    /\ \A k \in 1..Len(triangleSelection) : triangleSelection[k] # ev'.picked

(* C15: in add-triangle mode picks accumulate over the clicks; the third   *)
(* pick of a distinct vertex appends exactly the picked triple, in pick    *)
(* order, to the end of mesh.indices, keeps the earlier indices and        *)
(* mesh.vertices, clears the selection and reclassifies the densities for  *)
(* the mesh as it is now; a click that picks no vertex, or a selected one, *)
(* changes neither the selection nor the mesh.                             *)
C15_AddTriangle ==
    [][AddClick =>
         /\ ~FreshPick =>
              /\ triangleSelection' = triangleSelection
              /\ triangle' = triangle
         /\ (FreshPick /\ Len(triangleSelection) < 2) =>
              /\ triangleSelection' = Append(triangleSelection, ev'.picked)
              /\ triangle' = triangle
         /\ (FreshPick /\ Len(triangleSelection) = 2) =>
              /\ triangle'.indices = triangle.indices \o Append(triangleSelection, ev'.picked)
              /\ triangle'.vertices = triangle.vertices
              /\ triangleSelection' = << >>
              /\ triangleDensity' = getTriangleDensity(triangle', people', DENSITY')]_vars

-----------------------------------------------------------------------------
(* A step of the slider handler: one of the three slider values is new. *)
SliderStep ==
    /\ ev'.op = "slider"
    /\ \/ NUMBER_OF_PEOPLE' # NUMBER_OF_PEOPLE
       \/ NUMBER_OF_DOTS' # NUMBER_OF_DOTS
       \/ DENSITY' # DENSITY

(* `now` has exactly n points, and its first min(n, old count) points are  *)
(* the first points of `before`, in their order.                           *)
KeepsPrefix(before, now, n) ==
    /\ Len(now) = n
    /\ \A k \in 1..Min2(n, Len(before)) : now[k] = before[k]

(* C16: when the people or dot count is changed to n,                      *)
(* resetAndRegeneratePoints returns exactly n points whose first           *)
(* min(n, old count) points are the old points in their old order.         *)
C16_ResizeKeepsPrefix ==
    [][SliderStep =>
         /\ KeepsPrefix(people, ev'.regenerated.people, NUMBER_OF_PEOPLE')
         /\ KeepsPrefix(dots, ev'.regenerated.dots, NUMBER_OF_DOTS')]_vars

(* One slider event truncated the people and another appended a dot. *)
C16_Witness ==
    /\ ev.op = "slider"
    /\ Len(ev.regenerated.people) < ev.old[1]
    /\ NUMBER_OF_DOTS > InitDots

-----------------------------------------------------------------------------
(* A step that ran update() and whose updateCollisions returned: an event  *)
(* other than a key event that left such a record.                         *)
UpdateStep ==
    /\ used' # used
    /\ keyboardEvents' = keyboardEvents
    /\ ev'.uc = "returned"

(* The people and dots that step passed to updateCollisions: the resized   *)
(* arrays in the slider handler, the current ones elsewhere.               *)
UcPeopleIn == IF ev'.op = "slider" THEN ev'.regenerated.people ELSE people

UcDotsIn == IF ev'.op = "slider" THEN ev'.regenerated.dots ELSE dots

(* The points of pts that do not collide with the obstacle of that call. *)
Survivors(pts) ==
    LET Free(p) == ~Collides(obstacle', p)
    IN SelectSeq(pts, Free)

IsPrefix(s, t) == Len(s) <= Len(t) /\ SubSeq(t, 1, Len(s)) = s

(* The returned array is the survivors cut to the target count when there  *)
(* are more of them, and never longer than the target count.               *)
Truncated(survivors, target, result) ==
    /\ Len(survivors) > target => result = SubSeq(survivors, 1, target)
    /\ Len(result) <= target

(* C17: when the target count passed to updateCollisions is below the      *)
(* number of points that survive the collision filter, the result is the   *)
(* first `target` survivors; the returned arrays never hold more points    *)
(* than the target counts.                                                 *)
C17_TruncatedToTarget ==
    [][UpdateStep =>
         /\ Truncated(Survivors(UcPeopleIn), NUMBER_OF_PEOPLE', people')
         /\ Truncated(Survivors(UcDotsIn), NUMBER_OF_DOTS', dots')]_vars

(* C18: when no point collides and the target counts are the current       *)
(* counts, updateCollisions returns its people and dots as they are and    *)
(* draws no random position; when points collide, the survivors keep their *)
(* order at the front of the result and the replacements, one per draw,    *)
(* come after them.                                                        *)
C18_NoChurn ==
    [][UpdateStep =>
         /\ ( /\ Survivors(UcPeopleIn) = UcPeopleIn
              /\ Survivors(UcDotsIn) = UcDotsIn
              /\ Len(UcPeopleIn) = NUMBER_OF_PEOPLE'
              /\ Len(UcDotsIn) = NUMBER_OF_DOTS' )
            => (people' = UcPeopleIn /\ dots' = UcDotsIn /\ ev'.spawned = 0)
         /\ IsPrefix(Survivors(UcPeopleIn), people')
         /\ IsPrefix(Survivors(UcDotsIn), dots')
         /\ (Len(people') - Len(Survivors(UcPeopleIn)))
              + (Len(dots') - Len(Survivors(UcDotsIn))) = ev'.spawned]_vars

(* A person was dragged onto the obstacle and released: it was replaced. *)
C18_Witness == ev.op = "mouseup" /\ ev.uc = "returned" /\ ev.spawned > 0 /\ Len(people) > 1

-----------------------------------------------------------------------------
(* C19: every frame that is drawn shows the recomputation for all changes  *)
(* made before it: at the draw the density buckets are the classification  *)
(* of the current mesh and the current people (a dragged person at its     *)
(* current place) under the current threshold, and the wireframe is that   *)
(* of the current mesh.                                                    *)
C19_DrawSeesCurrent ==
    (ev.op = "render" /\ renderAlive) =>
      /\ triangleDensity = getTriangleDensity(triangle, people, DENSITY)
      /\ lines = [vertices |-> triangle.vertices,
                  indices |-> convertTriangleIndicesToLineIndices(triangle.indices)]

-----------------------------------------------------------------------------
(* SpecSpawn: createNewPosition for sample obstacles and random sources.   *)

(* Random sources: 0, 1, attemptCap - 1, attemptCap or attemptCap + 1      *)
(* draws on the obstacle's centre, then draws on one sample point.         *)
SpawnDraws ==
    { [n |-> n, p |-> g] :
        n \in {0, 1, attemptCap - 1, attemptCap, attemptCap + 1},
        g \in {G1, G2, <<0, 0>>} }

InitSpawn ==
    /\ \E k \in KeyframePoses : obstacle = MakeObstacle(k[1], k[2], k[3], k[4])
    /\ bounds = MakeBounds(1)
    /\ ev = [op |-> "obstacle"]
    /\ keyboardEvents = {}
    /\ people = << >> /\ dots = << >>
    /\ NUMBER_OF_PEOPLE = 0 /\ NUMBER_OF_DOTS = 0 /\ DENSITY = 0
    /\ triangle = EmptyMesh /\ lines = EmptyMesh /\ triangleDensity = EmptyDensity
    /\ isDragging = FALSE /\ draggedPointIndex = -1
    /\ editMode = "none" /\ triangleSelection = << >>
    /\ renderAlive = TRUE
    /\ used = 0

(* One call createNewPosition(obstacle, minX, maxX, minY, maxY). *)
SpawnCall ==
    /\ \E draw \in SpawnDraws :
         \E free \in {FreeDraws(draw, isPointColliding(obstacle, DrawAt(obstacle, draw, 0)),
                                isPointColliding(obstacle, DrawAt(obstacle, draw, draw.n + 1)))} :
            ev' = [op |-> "createNewPosition", draw |-> draw,
                   newPos |-> createNewPosition(obstacle, draw),
                   attempts |-> DrawsMade(free)]
    /\ UNCHANGED <<keyboardEvents, obstacle, bounds, people, dots, NUMBER_OF_PEOPLE,
                   NUMBER_OF_DOTS, DENSITY, triangle, lines, triangleDensity, isDragging,
                   draggedPointIndex, editMode, triangleSelection, renderAlive, used>>

(* The obstacle is at another sample pose. *)
SpawnSetObstacle ==
    /\ \E k \in KeyframePoses :
         /\ obstacle # MakeObstacle(k[1], k[2], k[3], k[4])
         /\ obstacle' = MakeObstacle(k[1], k[2], k[3], k[4])
    /\ ev' = [op |-> "obstacle"]
    /\ UNCHANGED <<keyboardEvents, bounds, people, dots, NUMBER_OF_PEOPLE,
                   NUMBER_OF_DOTS, DENSITY, triangle, lines, triangleDensity, isDragging,
                   draggedPointIndex, editMode, triangleSelection, renderAlive, used>>

NextSpawn == SpawnCall \/ SpawnSetObstacle

SpecSpawn == InitSpawn /\ [][NextSpawn]_vars

(* The k-th candidate position of the call. *)
Candidate(k) == DrawAt(obstacle, ev.draw, k)

(* C20: createNewPosition ends after examining at most 100 candidates; a   *)
(* returned position is the first candidate that does not collide with the *)
(* obstacle; it reports failure (null) only if every candidate it drew     *)
(* collides.                                                               *)
C20_BoundedRetry ==
    ev.op = "createNewPosition" =>
      /\ ev.attempts <= attemptCap
      /\ ev.newPos # NullVal =>
           /\ ev.newPos = Candidate(ev.attempts)
           /\ ~Collides(obstacle, Candidate(ev.attempts))
           /\ \A k \in 1..(ev.attempts - 1) : Collides(obstacle, Candidate(k))
      /\ ev.newPos = NullVal =>
           \A k \in 1..ev.attempts : Collides(obstacle, Candidate(k))

-----------------------------------------------------------------------------
(* Properties of the buckets' own vertex lists, under SpecDensity. *)

(* The bucket a source triangle belongs in, from the claim's side. *)
WantOf(t) ==
    IF CountIn(t) > DENSITY THEN "red"
    ELSE IF CountIn(t) = DENSITY THEN "orange" ELSE "blue"

(* The positions (1-based) of the source triangles that belong in bucket   *)
(* c, in source order.                                                     *)
RECURSIVE SourceOf(_, _)
SourceOf(c, k) ==
    IF k > Len(CoordTris(triangle)) THEN << >>
    ELSE (IF WantOf(CoordTris(triangle)[k]) = c THEN <<k>> ELSE << >>) \o SourceOf(c, k + 1)

(* The source-mesh vertex indices that the triangles of bucket c use. *)
UsedBy(c) ==
    { triangle.indices[3 * SourceOf(c, 1)[n] - d] : n \in 1..Len(SourceOf(c, 1)), d \in 0..2 }

(* The bucket's indices before position k. *)
SeenBefore(b, k) == { b.indices[j] : j \in 1..(k - 1) }

(* C21: in each bucket returned by getTriangleDensity every index is below *)
(* the number of the bucket's vertices; each source vertex index that the  *)
(* bucket's triangles use has one vertex entry and no more; every vertex   *)
(* entry is referenced by an index; the entries are in order of first use  *)
(* (an index not seen before is the next free one); and the coordinates of *)
(* the bucket's triangles are those of the source triangles they came from. *)
C21_FirstUseDedup ==
    Classified =>
      \A c \in Buckets :
        LET b == triangleDensity[c]
        IN /\ \A k \in 1..Len(b.indices) : 0 <= b.indices[k] /\ b.indices[k] < Len(b.vertices)
           /\ Len(b.vertices) = Cardinality(UsedBy(c))
           /\ { b.indices[k] : k \in 1..Len(b.indices) } = 0..(Len(b.vertices) - 1)
           /\ \A k \in 1..Len(b.indices) :
                b.indices[k] \notin SeenBefore(b, k)
                  => b.indices[k] = Cardinality(SeenBefore(b, k))
           /\ CoordTris(b)
                = [n \in 1..Len(SourceOf(c, 1)) |-> CoordTris(triangle)[SourceOf(c, 1)[n]]]

(* Two triangles that share an edge are in one bucket, which holds their 4 *)
(* vertices once each, and the far triangle, listed between them, is alone *)
(* in another bucket under the indices 0, 1, 2.                            *)
C21_Witness ==
    /\ Classified
    /\ Len(triangle.indices) = 9
    /\ triangleDensity.orange.indices = <<0, 1, 2, 1, 3, 2>>
    /\ Len(triangleDensity.orange.vertices) = 4
    /\ triangleDensity.red.indices = <<0, 1, 2>>

-----------------------------------------------------------------------------
(* SpecTri: triangulateWithObstacle for sample obstacles and free points.  *)

(* The dot arrays of the samples: up to MaxDots sample points. *)
TriDots == UNION { [1..n -> FreshPts] : n \in 0..MaxDots }

InitTri ==
    /\ \E k \in KeyframePoses : obstacle = MakeObstacle(k[1], k[2], k[3], k[4])
    /\ bounds = MakeBounds(1)
    /\ dots \in TriDots
    /\ ev = [op |-> "input"]
    /\ keyboardEvents = {}
    /\ people = << >>
    /\ NUMBER_OF_PEOPLE = 0 /\ NUMBER_OF_DOTS = 0 /\ DENSITY = 0
    /\ triangle = EmptyMesh /\ lines = EmptyMesh /\ triangleDensity = EmptyDensity
    /\ isDragging = FALSE /\ draggedPointIndex = -1
    /\ editMode = "none" /\ triangleSelection = << >>
    /\ renderAlive = TRUE
    /\ used = 0

TriFrame ==
    UNCHANGED <<keyboardEvents, bounds, people, NUMBER_OF_PEOPLE, NUMBER_OF_DOTS, DENSITY,
                lines, triangleDensity, isDragging, draggedPointIndex, editMode,
                triangleSelection, renderAlive, used>>

(* triangle = triangulateWithObstacle(obstacle, [...dots, ...corners])     *)
(* (index.js:404-405), with the constraints it hands to cdt2d              *)
(* (math.js:176-184).                                                      *)
TriCall ==
    /\ \E flatPoints \in {dots \o corners(bounds)} :
         /\ triangle' = triangulateWithObstacle(obstacle, flatPoints)
         /\ ev' = [op |-> "triangulateWithObstacle", flatPoints |-> flatPoints,
                   constraints |-> ObstacleConstraints(Len(flatPoints))]
    /\ UNCHANGED <<obstacle, dots>>
    /\ TriFrame

(* The obstacle is at another sample pose. *)
TriSetObstacle ==
    /\ \E k \in KeyframePoses :
         /\ obstacle # MakeObstacle(k[1], k[2], k[3], k[4])
         /\ obstacle' = MakeObstacle(k[1], k[2], k[3], k[4])
    /\ ev' = [op |-> "input"]
    /\ UNCHANGED <<dots, triangle>>
    /\ TriFrame

(* The dots are another sample array. *)
TriSetDots ==
    /\ \E d \in TriDots \ {dots} : dots' = d
    /\ ev' = [op |-> "input"]
    /\ UNCHANGED <<obstacle, triangle>>
    /\ TriFrame

NextTri == TriCall \/ TriSetObstacle \/ TriSetDots

SpecTri == InitTri /\ [][NextTri]_vars

(* The obstacle's corners from the claim's side: the four corners of the   *)
(* scaled rectangle, turned by the rotation about the centre.              *)
CornerOf(ob, sx, sy) ==
    LET local == << sx * ((ob.length * ob.scale) \div (2 * ScaleOne)),
                    sy * ((ob.width * ob.scale) \div (2 * ScaleOne)) >>
        turned == Rotate(local, ob.rotation)
    IN <<turned[1] + ob.x, turned[2] + ob.y>>

CornersOf(ob) ==
    << CornerOf(ob, -1, -1), CornerOf(ob, 1, -1), CornerOf(ob, 1, 1), CornerOf(ob, -1, 1) >>

(* C22: triangulateWithObstacle returns as vertices the caller's free      *)
(* points, in order, followed by the 4 obstacle corners, which so occupy   *)
(* the last 4 slots n..n+3 (n = number of free points); the constraint     *)
(* edges handed to the triangulation primitive are exactly (n,n+1),        *)
(* (n+1,n+2), (n+2,n+3), (n+3,n).                                          *)
C22_InputLayout ==
    ev.op = "triangulateWithObstacle" =>
      LET n == Len(ev.flatPoints)
      IN /\ Len(triangle.vertices) = n + 4
         /\ SubSeq(triangle.vertices, 1, n) = ev.flatPoints
         /\ \A k \in 0..3 : Vtx(triangle.vertices, n + k) = CornersOf(obstacle)[k + 1]
         /\ ev.constraints = << <<n, n + 1>>, <<n + 1, n + 2>>, <<n + 2, n + 3>>, <<n + 3, n>> >>

(* Two dots and the 4 arena corners before the corners of a rotated,       *)
(* scaled obstacle.                                                        *)
C22_Witness ==
    /\ ev.op = "triangulateWithObstacle"
    /\ Len(dots) = 2
    /\ obstacle.rotation = 45
    /\ Len(triangle.vertices) = 10
    /\ ev.constraints[4] = <<9, 6>>

-----------------------------------------------------------------------------
(* Where a person lies relative to a triangle, from the claim's side. *)

Between(x, a, b) == (a <= x /\ x <= b) \/ (b <= x /\ x <= a)

(* p lies on the segment from a to b, ends included. *)
OnSegment(p, a, b) ==
    /\ (p[1] - a[1]) * (b[2] - a[2]) = (p[2] - a[2]) * (b[1] - a[1])
    /\ Between(p[1], a[1], b[1])
    /\ Between(p[2], a[2], b[2])

TriEdges == {<<1, 2>>, <<2, 3>>, <<3, 1>>}

(* p lies on an edge or a vertex of t. *)
OnBoundary(t, p) == \E e \in TriEdges : OnSegment(p, t[e[1]], t[e[2]])

(* p lies on the same strict side of all three edges of t. *)
StrictlyInside(t, p) ==
    \/ \A e \in TriEdges : Side(p, t[e[1]], t[e[2]]) < 0
    \/ \A e \in TriEdges : Side(p, t[e[1]], t[e[2]]) > 0

(* The three edge functions of t at p have mixed strict signs. *)
MixedSigns(t, p) ==
    /\ \E e \in TriEdges : Side(p, t[e[1]], t[e[2]]) < 0
    /\ \E e \in TriEdges : Side(p, t[e[1]], t[e[2]]) > 0

(* The people the claim counts in t: those on its boundary or inside it. *)
CountedIn(t) == { j \in 1..Len(people) : OnBoundary(t, people[j]) \/ StrictlyInside(t, people[j]) }

MixedFor(t) == { j \in 1..Len(people) : MixedSigns(t, people[j]) }

-----------------------------------------------------------------------------
EditModes == {"none", "addTriangle", "deleteEdge"}

(* Between events the selection holds at most 2 vertex indices, all        *)
(* distinct, and the mode is one of the three.                             *)
SelectionOk ==
    /\ editMode \in EditModes
    /\ Len(triangleSelection) <= 2
    /\ \A i, j \in 1..Len(triangleSelection) :
         i # j => triangleSelection[i] # triangleSelection[j]
    /\ \A i \in 1..Len(triangleSelection) : triangleSelection[i] >= 0

(* A step of an event handler other than the key handlers. *)
HandlerStep == used' # used /\ keyboardEvents' = keyboardEvents

(* C24: editMode is always none, addTriangle or deleteEdge; between events *)
(* triangleSelection holds at most 2 vertex indices, all distinct; it is   *)
(* empty right after a mode-button click and right after a triangle has    *)
(* been appended; and a mousedown in mode none or deleteEdge leaves it as  *)
(* it was.                                                                 *)
C24_SelectionInvariant ==
    /\ []SelectionOk
    /\ [][HandlerStep =>
            /\ ev'.op \in {"mode", "addTriangle"} => triangleSelection' = << >>
            /\ (ev'.op \in DeleteOps \cup {"dragPick"} /\ editMode \in {"none", "deleteEdge"})
                 => triangleSelection' = triangleSelection]_vars

(* A third pick has just appended a triangle and emptied the selection. *)
C24_Witness ==
    /\ ev.op = "addTriangle"
    /\ editMode = "addTriangle"
    /\ triangleSelection = << >>
    /\ Len(ev.added) = 3

-----------------------------------------------------------------------------
(* The key deltas from the claim's side, as changes of <<x, y, scale,      *)
(* rotation>>.                                                             *)
Zero4 == <<0, 0, 0, 0>>

Plus4(a, b) == <<a[1] + b[1], a[2] + b[2], a[3] + b[3], a[4] + b[4]>>

(* The eight movements: the keys that ask for each, and its fixed delta. *)
Movements ==
    { [keys |-> {"w", "ArrowUp", "W"},    delta |-> <<0, steps * keyboardSensitivity, 0, 0>>],
      [keys |-> {"s", "ArrowDown", "S"},  delta |-> <<0, -(steps * keyboardSensitivity), 0, 0>>],
      [keys |-> {"a", "ArrowLeft", "A"},  delta |-> <<-(steps * keyboardSensitivity), 0, 0, 0>>],
      [keys |-> {"d", "ArrowRight", "D"}, delta |-> <<steps * keyboardSensitivity, 0, 0, 0>>],
      [keys |-> {"q", "Q"}, delta |-> <<0, 0, 0, rotationStep * keyboardSensitivity>>],
      [keys |-> {"e", "E"}, delta |-> <<0, 0, 0, -(rotationStep * keyboardSensitivity)>>],
      [keys |-> {"o", "O"}, delta |-> <<0, 0, scaleStep * keyboardSensitivity, 0>>],
      [keys |-> {"p", "P"}, delta |-> <<0, 0, -(scaleStep * keyboardSensitivity), 0>>] }

RecognisedKeys == UNION { m.keys : m \in Movements }

(* The fixed delta of one key; none for a key that is not a movement key. *)
KeyDelta(k) ==
    IF k \in RecognisedKeys THEN (CHOOSE m \in Movements : k \in m.keys).delta ELSE Zero4

(* The sum of the deltas of a set of keys, one term per key. *)
RECURSIVE SumPerKey(_)
SumPerKey(keys) ==
    IF keys = {} THEN Zero4
    ELSE LET k == CHOOSE k \in keys : TRUE
         IN Plus4(KeyDelta(k), SumPerKey(keys \ {k}))

(* The sum of the deltas of a set of movements, one term per movement. *)
RECURSIVE SumPerMovement(_)
SumPerMovement(ms) ==
    IF ms = {} THEN Zero4
    ELSE LET m == CHOOSE m \in ms : TRUE
         IN Plus4(m.delta, SumPerMovement(ms \ {m}))

(* The movements that at least one held key asks for. *)
Asked(keys) == { m \in Movements : m.keys \cap keys # {} }

(* A step that is one call of calculateMovements. *)
CalcRan == ev'.op = "calculateMovements" /\ ev'.n # ev.n

(* C25 as stated: for every set of pressed keys the change applied before  *)
(* clamping is the sum of the per-key deltas, one per pressed key, and     *)
(* calculateMovements returns true exactly when a recognised movement key  *)
(* is pressed.                                                             *)
C25_KeysAdditiveAsStated ==
    [][CalcRan =>
         /\ ev'.raw = Plus4(Pose(obstacle), SumPerKey(keyboardEvents))
         /\ ev'.movement <=> (keyboardEvents \cap RecognisedKeys # {})]_vars

(* C25: the change applied before clamping is the sum of the deltas of the *)
(* movements asked for, each counted once however many of its keys are     *)
(* held (opposite movements cancel, movements on different axes add up),   *)
(* and calculateMovements returns true exactly when a recognised movement  *)
(* key is pressed, also when the deltas cancel or the clamp undoes them.   *)
C25_KeysAdditive ==
    [][CalcRan =>
         /\ ev'.raw = Plus4(Pose(obstacle), SumPerMovement(Asked(keyboardEvents)))
         /\ ev'.movement <=> (keyboardEvents \cap RecognisedKeys # {})]_vars

(* With w and ArrowUp held, the call took the constructed pose one step up *)
(* and returned true.                                                      *)
C25_Witness ==
    /\ AfterCalc
    /\ keyboardEvents = {"w", "ArrowUp"}
    /\ ev.raw = <<0, steps * keyboardSensitivity, ScaleOne, 0>>
    /\ ev.movement

-----------------------------------------------------------------------------
(* A step of the mousemove handler during a drag. *)
MoveStep == used' # used /\ keyboardEvents' = keyboardEvents /\ ev'.op = "mousemove"

(* C26: while a drag is in progress, draggedPointIndex is the index of a   *)
(* person (0 <= index < number of people), and a mousemove overwrites that *)
(* person's coordinates only: people keeps its length and every other      *)
(* person stays where it was.                                              *)
C26_DragIndexValid ==
    /\ [](isDragging => (0 <= draggedPointIndex /\ draggedPointIndex < Len(people)))
    /\ [][MoveStep =>
            /\ Len(people') = Len(people)
            /\ \A k \in 1..Len(people) : k # draggedPointIndex + 1 => people'[k] = people[k]]_vars


(* C27: a call of calculateMovements while no movement key is held returns *)
(* false and leaves the obstacle's x, y, scale and rotation as they were.  *)
C27_IdleFrameKeepsObstacle ==
    [][(CalcRan /\ keyboardEvents \cap RecognisedKeys = {}) =>
         /\ ~ev'.movement
         /\ Pose(obstacle') = Pose(obstacle)]_vars


-----------------------------------------------------------------------------
(* C28: after every update() whose updateCollisions returned, people holds *)
(* exactly NUMBER_OF_PEOPLE points and dots exactly NUMBER_OF_DOTS points. *)
C28_CountsMatchConfiguration ==
    ev.uc = "returned" =>
      /\ Len(people) = NUMBER_OF_PEOPLE
      /\ Len(dots) = NUMBER_OF_DOTS


-----------------------------------------------------------------------------
(* The events that C29 lists as keeping the mesh. *)
KeepingOps == {"mousemove", "mouseup", "mode", "slider"}

(* The mesh a frame with movement builds: the triangulation of the dots,   *)
(* the arena corners and the obstacle as they are after the frame.         *)
FreshMesh == triangulateWithObstacle(obstacle', dots' \o corners(bounds'))

-----------------------------------------------------------------------------
(* The squared distance from person j (1-based) to the point m. *)
PersonDistSq(j, m) ==
    (m[1] - people[j][1]) * (m[1] - people[j][1]) + (m[2] - people[j][2]) * (m[2] - people[j][2])

(* The people strictly within the pick radius of m. *)
WithinReach(m) ==
    { j \in 1..Len(people) :
        people[j] # UndefPt /\ PersonDistSq(j, m) < pickRadius * pickRadius }

(* The index (0-based) of the person of WithinReach(m) nearest to m, the   *)
(* lowest index among equally near ones.                                   *)
NearestPerson(m) ==
    (CHOOSE j \in WithinReach(m) :
        \A i \in WithinReach(m) :
            \/ PersonDistSq(j, m) < PersonDistSq(i, m)
            \/ PersonDistSq(j, m) = PersonDistSq(i, m) /\ j <= i) - 1

(* A step of the mousedown handler in mode none. *)
DragClick == HandlerStep /\ editMode = "none" /\ ev'.op = "dragPick"

(* A step of the mousedown handler in mode addTriangle or deleteEdge. *)
EditClick ==
    /\ HandlerStep
    /\ editMode \in {"addTriangle", "deleteEdge"}
    /\ ev'.op \in DeleteOps \cup {"addPick", "addTriangle"}

(* C30: isDragging becomes true only by a mousedown in mode none with a    *)
(* person strictly within the pick radius, and the drag is then on the     *)
(* nearest such person, the lowest index on ties; a mousedown in mode      *)
(* addTriangle or deleteEdge starts no drag; a mousemove without a drag    *)
(* changes nothing; a mouseup leaves isDragging false and                  *)
(* draggedPointIndex = -1.                                                 *)
C30_DragStartsInModeNone ==
    [][/\ (~isDragging /\ isDragging') => (DragClick /\ WithinReach(ev'.mouse) # {})
       /\ (DragClick /\ WithinReach(ev'.mouse) # {}) =>
            (isDragging' /\ draggedPointIndex' = NearestPerson(ev'.mouse))
       /\ (DragClick /\ WithinReach(ev'.mouse) = {}) => isDragging' = isDragging
       /\ EditClick => (isDragging' = isDragging /\ draggedPointIndex' = draggedPointIndex)
       /\ (HandlerStep /\ ev'.op = "mousemoveIdle") =>
            UNCHANGED <<keyboardEvents, obstacle, bounds, people, dots, NUMBER_OF_PEOPLE,
                        NUMBER_OF_DOTS, DENSITY, triangle, lines, triangleDensity, isDragging,
                        draggedPointIndex, editMode, triangleSelection, renderAlive>>
       /\ (HandlerStep /\ ev'.op \in {"mouseup", "mouseupIdle"}) =>
            (~isDragging' /\ draggedPointIndex' = -1)]_vars

(* A drag started on person 1, which is nearer to the mouse than person 0, *)
(* both being within the pick radius.                                      *)
C30_Witness ==
    /\ ev.op = "dragPick"
    /\ isDragging
    /\ draggedPointIndex = 1
    /\ WithinReach(ev.mouse) = {1, 2}

=============================================================================
